---- MODULE Spec2Model ----
(***************************************************************************)
(* Model of @umituz/react-native-audio: the two session entities           *)
(* (AudioRecording, AudioPlayback) and the two instance coordinators       *)
(* (AudioRecordingService, AudioPlaybackService) that drive an expo-av     *)
(* handle and poll its status on an interval.                              *)
(*                                                                         *)
(* JavaScript runs one task at a time, so an async method is a sequence of *)
(* atomic blocks separated by its awaits.  Each block is one action here:  *)
(* <Op>Call is the block from the call to the first await (or to the       *)
(* return/throw when no await is reached), the following actions are the   *)
(* blocks that run when the awaited native promise settles.  The native    *)
(* module is an external collaborator: every native promise may resolve or *)
(* reject, and a resolved status carries any value of its domain.          *)
(*                                                                         *)
(* The caller awaits each coordinator method before it calls the next one  *)
(* (the hooks do: `await serviceRef.current.start()`), so one method is in *)
(* flight per coordinator.  dispose() is synchronous and is called from    *)
(* the hooks' unmount effect, so it may run between any two blocks.  The   *)
(* interval callbacks run between any two blocks as well.  A behaviour    *)
(* follows one coordinator instance (coord): the instances share nothing.  *)
(***************************************************************************)
EXTENDS Integers, Sequences, FiniteSets, TLC

(* ---------------------------- bounds ----------------------------------- *)
\* intervals of one recording coordinator alive at the same time (an interval
\* is alive until it is cleared and its last callback has finished)
MaxTimers == 2
\* a load() is called while fewer than this many poll callbacks of the
\* playback coordinator are suspended on getStatusAsync
MaxPbTimers == 1
\* largest durationMillis / positionMillis the native status reports
MaxMillis == 1

(* --------------------------- value domains ----------------------------- *)
Millis == 0..MaxMillis
\* a falsy uri (null, undefined or the empty string)
NoUri == "<null>"
\* the output files the native recorder reports
RecUris == {"file:rec"}
NoError == "<null>"
\* an error rejected by the native module
NativeError == "native error"
\* reading a property of null: this.recordingInstance.getStatusAsync()
TypeError == "TypeError"
\* status == null is <<>>, a status object is a one-element sequence
NoStatus == << >>

IDLE == "idle"
PREPARING == "preparing"
RECORDING == "recording"
PAUSED == "paused"
STOPPING == "stopping"
STOPPED == "stopped"
ERROR == "error"
AudioRecordingState == {IDLE, PREPARING, RECORDING, PAUSED, STOPPING, STOPPED, ERROR}
LOADING == "loading"
READY == "ready"
PLAYING == "playing"
COMPLETED == "completed"
AudioPlaybackState == {IDLE, LOADING, READY, PLAYING, PAUSED, STOPPED, COMPLETED, ERROR}
\* the sources a caller loads
PbUris == {"file:a"}
\* the positions a caller seeks to: before the start, inside, past the end
SeekPositions == (0 - 1)..(MaxMillis + 1)
\* volumes and rates are counted in tenths: 10 is 1.0. The documented ranges
\* of the volume and of the playback rate
VOLUME == [MIN |-> 0, MAX |-> 10]
PLAYBACK_RATE == [MIN |-> 5, MAX |-> 20]
\* the volumes and the rates a caller sets: one inside the range, one above it
Volumes == {0, 15}
PlaybackRates == {5, 30}

VARIABLES
  coord,              \* which coordinator instance this behaviour exercises
  recording,          \* AudioRecordingService.recording: the AudioRecording entity
  recordingInstance,  \* AudioRecordingService.recordingInstance and the object it refers to
  playback,           \* AudioPlaybackService.playback: the AudioPlayback entity
  soundInstance,      \* AudioPlaybackService.soundInstance and the object it refers to
  statusUpdateInterval, \* AudioPlaybackService.statusUpdateInterval and the interval it names
  timers,             \* the intervals of startStatusUpdate no property names any more
  call,               \* the coordinator method in flight and the await it is suspended on
  ev,                 \* the last block that ran and what it did to the native side
  run,                \* cursor of the take "new session, prepare(), start(), stop()"
  hist,               \* the session states that take went through up to start()'s return
  sound,              \* static AudioPlaybackService.sound and the object it refers to
  staticRecording,    \* static AudioRecordingService.recording and the object it refers to
  args,               \* the arguments a utility function or a static setter is called with
  out,                \* the last call of a utility function or of a static service method
  app                 \* an application with two components that use a hook

\* coord: "rec" an AudioRecordingService; "pb" an AudioPlaybackService whose
\* caller loads, plays, seeks and sets looping; "setVolume", "setPlaybackRate",
\* "setMuted" an AudioPlaybackService whose caller loads and calls that setter
\* "utils" the utility functions; "staticPlayback", "staticRecording" the
\* static services, the first with its useAudio consumers; "useAudioPlayback"
\* two consumers of that hook, each with a coordinator of its own
PbCoords == {"pb", "setVolume", "setPlaybackRate", "setMuted"}
vars == <<coord, recording, recordingInstance, playback, soundInstance,
          statusUpdateInterval, timers, call, ev, run, hist,
          sound, staticRecording, args, out, app>>
\* the variables of the recording coordinator, of the playback coordinator
recVars == <<recording, recordingInstance, run, hist>>
pbVars == <<playback, soundInstance, statusUpdateInterval>>
\* the variables of the static services and of the utility functions
staticVars == <<sound, staticRecording, args, out>>
\* no utility function and no static service method was called
NoArgs == [fn |-> "none", a |-> 0, b |-> 0]
NoOut == [fn |-> "none", val |-> "none"]
\* the variable of the hooks, and no application followed
hookVars == <<app>>
NoApp == << >>
\* heap: the AudioPlaybackOptions objects, by identity; hooks: the hook
\* instances of the two consumers; onStatusUpdate: the static
\* AudioPlaybackService.onStatusUpdate, by the consumer whose setter it holds
heap == app.heap
hooks == app.hooks
onStatusUpdate == app.onStatusUpdate

(* ----------------------- AudioRecording entity ------------------------- *)
NewAudioRecording ==
  [state |-> IDLE, uri |-> NoUri, duration |-> 0, error |-> NoError, status |-> NoStatus]

Recording_canRecord(r) == r.state = IDLE \/ r.state = STOPPED
Recording_canPause(r) == r.state = RECORDING
Recording_canStop(r) == r.state = RECORDING \/ r.state = PAUSED
Recording_canResume(r) == r.state = PAUSED

Recording_setState(r, s) == [r EXCEPT !.state = s]
Recording_setUri(r, u) == [r EXCEPT !.uri = u]
Recording_setDuration(r, d) == [r EXCEPT !.duration = d]
Recording_setError_KeepsState(r, e) == [r EXCEPT !.error = e]
Recording_setError(r, e) == [r EXCEPT !.error = e, !.state = ERROR]
Recording_setStatus(r, st) == [r EXCEPT !.status = st]
Recording_reset(r) ==
  [r EXCEPT !.state = IDLE, !.uri = NoUri, !.duration = 0, !.error = NoError,
            !.status = NoStatus]

(* ------------------------ AudioPlayback entity ------------------------- *)
\* DEFAULT_PLAYBACK_OPTIONS, with the isLooping a consumer may pass to
\* useAudioPlayback; shouldPlay and progressUpdateIntervalMillis are handed
\* to createAsync and setInterval and never written
PlaybackOptions(looping) ==
  [isLooping |-> looping, volume |-> 10, playbackRate |-> 10, isMuted |-> FALSE]
NewAudioPlayback(options) ==
  [state |-> IDLE, uri |-> NoUri, options |-> options, duration |-> 0, position |-> 0,
   error |-> NoError, status |-> NoStatus]

Playback_isLooping(p) == p.options.isLooping
Playback_canPlay(p) ==
  p.uri # NoUri /\ p.state \in {IDLE, READY, PAUSED, STOPPED, COMPLETED}
Playback_canPause(p) == p.state = PLAYING
Playback_canStop(p) == p.state \in {PLAYING, PAUSED, LOADING}
Playback_canSeek(p) ==
  p.uri # NoUri /\ p.state \in {READY, PLAYING, PAUSED, STOPPED, COMPLETED}

Min(a, b) == IF a < b THEN a ELSE b
Max(a, b) == IF a > b THEN a ELSE b
\* get progress, as the fraction <<numerator, denominator>>; a denominator of
\* 0 stands for the NaN or Infinity a division by 0 gives
Playback_progress_Unguarded(p) == <<p.position, p.duration>>
Playback_progress(p) ==
  IF p.duration = 0 THEN <<0, 1>> ELSE <<p.position, p.duration>>
Playback_setState(p, st) == [p EXCEPT !.state = st]
Playback_setUri(p, u) == [p EXCEPT !.uri = u]
Playback_setDuration(p, d) == [p EXCEPT !.duration = d]
Playback_setPosition_Unclamped(p, pos) == [p EXCEPT !.position = pos]
Playback_setPosition(p, pos) == [p EXCEPT !.position = Max(0, Min(pos, p.duration))]
Playback_setVolume(p, v) == [p EXCEPT !.options.volume = v]
Playback_setPlaybackRate(p, v) == [p EXCEPT !.options.playbackRate = v]
Playback_setLooping(p, b) == [p EXCEPT !.options.isLooping = b]
Playback_setMuted(p, b) == [p EXCEPT !.options.isMuted = b]
Playback_setError(p, e) == [p EXCEPT !.error = e, !.state = ERROR]
Playback_setStatus(p, st) == [p EXCEPT !.status = st]
Playback_reset(p) ==
  [p EXCEPT !.state = IDLE, !.uri = NoUri, !.duration = 0, !.position = 0,
            !.error = NoError, !.status = NoStatus]

(* ------------------------------ intervals ------------------------------ *)
\* An interval created by setInterval is
\*   "idle"    active, no callback in flight;
\*   "busy"    active, its callback suspended on getStatusAsync (one callback
\*             of an interval is in flight at a time);
\*   "zombie"  cleared while its callback is suspended: the callback still
\*             resumes and runs to its end;
\*   "dead"    cleared and finished.
\* "null" is the null reference.  An interval is reached through the
\* property that holds its id; `timers` counts, per state, the intervals
\* that are alive and that no property holds any more.
TimerAlive(tm) == tm \in {"idle", "busy", "zombie"}
NoTimers == [idle |-> 0, busy |-> 0, zombie |-> 0]
\* clearInterval(id) on the interval in state tm
clearInterval(tm) ==
  CASE tm = "idle" -> "dead"
    [] tm = "busy" -> "zombie"
    [] OTHER -> tm
\* the intervals ts and one more in state tm whose id was dropped
Orphan(ts, tm) == IF TimerAlive(tm) THEN [ts EXCEPT ![tm] = @ + 1] ELSE ts
\* the intervals ts without one in state tm
Without(ts, tm) == [ts EXCEPT ![tm] = @ - 1]

(* ------------------------ native recorder side ------------------------- *)
\* The coordinator reaches one Audio.Recording at a time, the one its
\* reference holds; an object it no longer refers to cannot be reached again.
\* set: the reference is not null; prepared: prepareToRecordAsync resolved on
\* the object; torn: stopAndUnloadAsync has been invoked on it; interval: the
\* interval whose id the coordinator stored on it as _statusUpdateInterval.
NoInstance == [set |-> FALSE, prepared |-> FALSE, torn |-> FALSE, interval |-> "null"]
\* new Audio.Recording()
NewInstance == [set |-> TRUE, prepared |-> FALSE, torn |-> FALSE, interval |-> "null"]

\* the intervals alive: the one the handle names and the others
RecAliveTimers ==
  timers.idle + timers.busy + timers.zombie
    + (IF TimerAlive(recordingInstance.interval) THEN 1 ELSE 0)
HasFreshTimer == RecAliveTimers < MaxTimers

(* -------------------------- native sound side -------------------------- *)
\* set: the reference is not null; torn: unloadAsync has been invoked on the
\* object
NoSound == [set |-> FALSE, torn |-> FALSE]
\* the sound Audio.Sound.createAsync resolves with
NewSound == [set |-> TRUE, torn |-> FALSE]
\* poll callbacks of the playback coordinator suspended on getStatusAsync
PbCallbacksInFlight ==
  timers.busy + timers.zombie
    + (IF statusUpdateInterval \in {"busy", "zombie"} THEN 1 ELSE 0)

\* the reference is overwritten by inst: the interval named by the old
\* handle's property stays scheduled, out of reach
RecReplaceInstance(inst) ==
  /\ recordingInstance' = inst
  /\ timers' = Orphan(timers, recordingInstance.interval)

\* uri, flag, num: the argument of a suspended load(uri), setLooping(flag) or
\* setMuted(flag), seek(num) or setVolume(num) or setPlaybackRate(num); the
\* flag of a suspended start() tells that it was called on a Paused session
NoCall == [op |-> "none", pc |-> "none", uri |-> NoUri, flag |-> FALSE, num |-> 0]
Await(op, pc) == [op |-> op, pc |-> pc, uri |-> NoUri, flag |-> FALSE, num |-> 0]

(* ------------------------------ ghosts --------------------------------- *)
\* op: the method (or "tick") the block belongs to; native: the primitive the
\* block invoked; ret: whether the block ended its method; lost: the block
\* overwrote the reference to an object on which no teardown had been
\* invoked; loaded: the block is a callback that received a status and wrote
\* it to the session
Event(op, native) ==
  [op |-> op, native |-> native, ret |-> "none", lost |-> FALSE, loaded |-> FALSE]
\* the block ended its method: it returned, it threw
Returned(op) == [Event(op, "none") EXCEPT !.ret = "returned"]
Threw(op) == [Event(op, "none") EXCEPT !.ret = "threw"]

\* run follows one take on a new session: "fresh", prepare() in flight
\* ("prepare") and returned ("prepared"), start() in flight ("start") and
\* returned ("started"), stop() in flight ("stop") and returned with only
\* prepare() called since ("stopped"); "off" once anything else was called or
\* a call threw.  hist lists the states the session took up to "started".
Track(r2) ==
  hist' = IF run' = "off" THEN << >>
          ELSE IF run' \in {"stop", "stopped"} THEN hist
          ELSE IF r2.state # recording.state THEN Append(hist, r2.state) ELSE hist

(* ------------------------------- hooks --------------------------------- *)
\* two components that use a hook
Consumers == {"a", "b"}
\* the options objects: the exported constant, and the copy createPlayback
\* makes for a consumer that passes options of its own
Objects == {"DEFAULT_PLAYBACK_OPTIONS"} \cup Consumers
\* mounted: "no" not yet, "yes", "gone" unmounted; custom: the consumer
\* passed options; options: the object its AudioPlayback holds as _options;
\* soundInstance: its coordinator holds a sound; call: the method of its
\* coordinator in flight; playbackState: the state useAudio keeps, << >> for
\* null
NoHook ==
  [mounted |-> "no", custom |-> FALSE, options |-> "DEFAULT_PLAYBACK_OPTIONS",
   soundInstance |-> FALSE, call |-> NoCall, playbackState |-> << >>]

Init ==
  /\ coord \in {"rec"} \cup PbCoords
  /\ recording = NewAudioRecording
  /\ recordingInstance = NoInstance
  /\ \E looping \in BOOLEAN : playback = NewAudioPlayback(PlaybackOptions(looping))
  /\ soundInstance = NoSound
  /\ statusUpdateInterval = "null"
  /\ timers = NoTimers
  /\ call = NoCall
  /\ ev = Event("init", "none")
  /\ run = "fresh"
  /\ hist = <<IDLE>>
  /\ sound = NoSound
  /\ staticRecording = NoSound
  /\ args = NoArgs
  /\ out = NoOut
  /\ app = NoApp

(* -------------------- AudioRecordingService.prepare -------------------- *)
\* what prepare() does with the handle it already holds before it allocates
\* the new one: nothing, the reference is overwritten
RecPrepareDropsUntorn == recordingInstance.set /\ ~recordingInstance.torn

\* setState(PREPARING); recordingInstance = new Audio.Recording();
\* prepareToRecordAsync(config) is invoked and awaited
RecPrepareCall ==
  /\ coord = "rec"
  /\ call = NoCall
  /\ LET r2 == Recording_setState(recording, PREPARING)
     IN /\ recording' = r2
        /\ RecReplaceInstance(NewInstance)
        /\ call' = Await("prepare", "prepareToRecordAsync")
        /\ ev' = [Event("prepare", "prepareToRecordAsync") EXCEPT !.lost = RecPrepareDropsUntorn]
        /\ run' = IF run = "fresh" THEN "prepare"
                  ELSE IF run = "stopped" THEN "stopped" ELSE "off"
        /\ Track(r2)
        /\ UNCHANGED <<hookVars, pbVars, staticVars, coord>>

\* prepare() that does not go back to Idle
RecPrepared_StaysPreparing(r) == r

\* the session prepare() leaves once prepareToRecordAsync resolved:
\* setState(IDLE)
RecPrepared(r) == Recording_setState(r, IDLE)

\* prepareToRecordAsync resolved: setState(IDLE), return
RecPrepareResolved ==
  /\ coord = "rec"
  /\ call.op = "prepare"
  /\ LET r2 == RecPrepared(recording)
     IN /\ recording' = r2
        /\ recordingInstance' = IF recordingInstance.set
                                THEN [recordingInstance EXCEPT !.prepared = TRUE]
                                ELSE recordingInstance
        /\ call' = NoCall
        /\ ev' = Returned("prepare")
        /\ run' = IF run = "prepare" THEN "prepared"
                  ELSE IF run = "stopped" THEN "stopped" ELSE "off"
        /\ Track(r2)
        /\ UNCHANGED <<hookVars, pbVars, staticVars, coord, timers>>

\* prepareToRecordAsync rejected: catch, setError(err), throw err
RecPrepareRejected ==
  /\ coord = "rec"
  /\ call.op = "prepare"
  /\ LET r2 == Recording_setError(recording, NativeError)
     IN /\ recording' = r2
        /\ call' = NoCall
        /\ ev' = Threw("prepare")
        /\ run' = "off"
        /\ Track(r2)
        /\ UNCHANGED <<hookVars, pbVars, staticVars, coord, recordingInstance, timers>>

(* --------------------- AudioRecordingService.start --------------------- *)
\* the guard of start(): if (!this.recordingInstance) throw
RecStartAllowed == recordingInstance.set

\* guard fails: throw inside the try, catch, setError(err), throw err
RecStartRefused ==
  /\ coord = "rec"
  /\ call = NoCall
  /\ HasFreshTimer
  /\ ~RecStartAllowed
  /\ LET r2 == Recording_setError(recording, "Recording not prepared. Call prepare() first.")
     IN /\ recording' = r2
        /\ ev' = Threw("start")
        /\ run' = "off"
        /\ Track(r2)
        /\ UNCHANGED <<hookVars, pbVars, staticVars, coord, recordingInstance, timers, call>>

\* setState(RECORDING); startAsync() is invoked on the handle and awaited
RecStartCall ==
  /\ coord = "rec"
  /\ call = NoCall
  /\ HasFreshTimer
  /\ RecStartAllowed
  /\ LET r2 == Recording_setState(recording, RECORDING)
     IN /\ recording' = r2
        /\ call' = [Await("start", "startAsync") EXCEPT !.flag = recording.state = PAUSED]
        /\ ev' = Event("start", "startAsync")
        /\ run' = IF run = "prepared" THEN "start" ELSE "off"
        /\ Track(r2)
        /\ UNCHANGED <<hookVars, pbVars, staticVars, coord, recordingInstance, timers>>

\* startAsync resolved: this.recordingInstance.getStatusAsync() is invoked and
\* awaited; with the reference nulled meanwhile the read throws a TypeError
RecStartStarted ==
  /\ coord = "rec"
  /\ call.op = "start" /\ call.pc = "startAsync"
  /\ IF recordingInstance.set
     THEN /\ call' = [call EXCEPT !.pc = "getStatusAsync"]
          /\ ev' = Event("start", "getStatusAsync")
          /\ run' = run
          /\ Track(recording)
          /\ UNCHANGED <<hookVars, pbVars, staticVars, coord, recording, recordingInstance, timers>>
     ELSE LET r2 == Recording_setError(recording, TypeError)
          IN /\ recording' = r2
             /\ call' = NoCall
             /\ ev' = Threw("start")
             /\ run' = "off"
             /\ Track(r2)
             /\ UNCHANGED <<hookVars, pbVars, staticVars, coord, recordingInstance, timers>>

\* startStatusUpdate(): no handle, no interval; else setInterval(..., 500) and
\* the id is stored on the handle as _statusUpdateInterval
RecStartStatusUpdate ==
  IF ~recordingInstance.set
  THEN UNCHANGED <<timers, recordingInstance>>
  ELSE /\ recordingInstance' = [recordingInstance EXCEPT !.interval = "idle"]
       /\ timers' = Orphan(timers, recordingInstance.interval)

\* the session start() leaves after reading the status {uri, durationMillis}:
\* setDuration(status.durationMillis || 0); if (status.uri) setUri(status.uri)
RecStartSeed(r, u, d) ==
  LET r1 == Recording_setDuration(r, d)
  IN IF u # NoUri THEN Recording_setUri(r1, u) ELSE r1

\* getStatusAsync resolved: seed the session; startStatusUpdate(); return
RecStartStatusRead ==
  /\ coord = "rec"
  /\ call.op = "start" /\ call.pc = "getStatusAsync"
  /\ \E u \in RecUris \cup {NoUri}, d \in Millis :
       LET r2 == RecStartSeed(recording, u, d)
       IN /\ recording' = r2
          /\ RecStartStatusUpdate
          /\ call' = NoCall
          /\ ev' = Returned("start")
          /\ run' = IF run = "start" THEN "started" ELSE "off"
          /\ Track(r2)
          /\ UNCHANGED <<hookVars, pbVars, staticVars, coord>>

\* startAsync or getStatusAsync rejected: catch, setError(err), throw err
RecStartRejected ==
  /\ coord = "rec"
  /\ call.op = "start"
  /\ LET r2 == Recording_setError(recording, NativeError)
     IN /\ recording' = r2
        /\ call' = NoCall
        /\ ev' = Threw("start")
        /\ run' = "off"
        /\ Track(r2)
        /\ UNCHANGED <<hookVars, pbVars, staticVars, coord, recordingInstance, timers>>

(* --------------------- AudioRecordingService.pause --------------------- *)
\* a guard that throws before the try block
RecPauseRefusal_Silent(r) == r

\* the session pause() leaves when its guard fails: the throw is inside the
\* try, so the catch block runs setError(err) before it rethrows
RecPauseRefusal(r) == Recording_setError(r, "Cannot pause recording")

\* !recordingInstance || !canPause: throw, catch, setError(err), throw err
RecPauseRefused ==
  /\ coord = "rec"
  /\ call = NoCall
  /\ ~recordingInstance.set \/ ~Recording_canPause(recording)
  /\ LET r2 == RecPauseRefusal(recording)
     IN /\ recording' = r2
        /\ ev' = Threw("pause")
        /\ run' = "off"
        /\ Track(r2)
        /\ UNCHANGED <<hookVars, pbVars, staticVars, coord, recordingInstance, timers, call>>

\* setState(PAUSED); pauseAsync() is invoked and awaited
RecPauseCall ==
  /\ coord = "rec"
  /\ call = NoCall
  /\ recordingInstance.set /\ Recording_canPause(recording)
  /\ LET r2 == Recording_setState(recording, PAUSED)
     IN /\ recording' = r2
        /\ call' = Await("pause", "pauseAsync")
        /\ ev' = Event("pause", "pauseAsync")
        /\ run' = "off"
        /\ Track(r2)
        /\ UNCHANGED <<hookVars, pbVars, staticVars, coord, recordingInstance, timers>>

\* pauseAsync resolved: return
RecPauseResolved ==
  /\ coord = "rec"
  /\ call.op = "pause"
  /\ call' = NoCall
  /\ ev' = Returned("pause")
  /\ run' = "off"
  /\ Track(recording)
  /\ UNCHANGED <<hookVars, pbVars, staticVars, coord, recording, recordingInstance, timers>>

\* pauseAsync rejected: catch, setError(err), throw err
RecPauseRejected ==
  /\ coord = "rec"
  /\ call.op = "pause"
  /\ LET r2 == Recording_setError(recording, NativeError)
     IN /\ recording' = r2
        /\ call' = NoCall
        /\ ev' = Threw("pause")
        /\ run' = "off"
        /\ Track(r2)
        /\ UNCHANGED <<hookVars, pbVars, staticVars, coord, recordingInstance, timers>>

(* ---------------------- AudioRecordingService.stop --------------------- *)
\* !recordingInstance || !canStop: throw inside the try, catch, setError, throw
RecStopRefused ==
  /\ coord = "rec"
  /\ call = NoCall
  /\ ~recordingInstance.set \/ ~Recording_canStop(recording)
  /\ LET r2 == Recording_setError(recording, "Cannot stop recording")
     IN /\ recording' = r2
        /\ ev' = Threw("stop")
        /\ run' = "off"
        /\ Track(r2)
        /\ UNCHANGED <<hookVars, pbVars, staticVars, coord, recordingInstance, timers, call>>

\* setState(STOPPING); stopAndUnloadAsync() is invoked and awaited
RecStopCall ==
  /\ coord = "rec"
  /\ call = NoCall
  /\ recordingInstance.set /\ Recording_canStop(recording)
  /\ LET r2 == Recording_setState(recording, STOPPING)
     IN /\ recording' = r2
        /\ call' = Await("stop", "stopAndUnloadAsync")
        /\ recordingInstance' = [recordingInstance EXCEPT !.torn = TRUE]
        /\ ev' = Event("stop", "stopAndUnloadAsync")
        /\ run' = IF run = "started" THEN "stop" ELSE "off"
        /\ Track(r2)
        /\ UNCHANGED <<hookVars, pbVars, staticVars, coord, timers>>

\* stop() that keeps its reference to the unloaded recorder
RecStopRelease_Keeps == UNCHANGED <<recordingInstance, timers>>

\* what stop() does to the coordinator once stopAndUnloadAsync resolved:
\* this.recordingInstance = null; the interval of startStatusUpdate is not
\* cleared
RecStopRelease == RecReplaceInstance(NoInstance)

\* stopAndUnloadAsync resolved with a status: if (status.uri) setUri;
\* setDuration(status.durationMillis || 0); setState(STOPPED); handle = null
RecStopResolved ==
  /\ coord = "rec"
  /\ call.op = "stop"
  /\ \E u \in RecUris \cup {NoUri}, d \in Millis :
       LET r1 == IF u # NoUri THEN Recording_setUri(recording, u) ELSE recording
           r2 == Recording_setState(Recording_setDuration(r1, d), STOPPED)
       IN /\ recording' = r2
          /\ RecStopRelease
          /\ call' = NoCall
          /\ ev' = Returned("stop")
          /\ run' = IF run = "stop" THEN "stopped" ELSE "off"
          /\ Track(r2)
          /\ UNCHANGED <<hookVars, pbVars, staticVars, coord>>

\* stopAndUnloadAsync rejected: catch, setError(err), throw err
RecStopRejected ==
  /\ coord = "rec"
  /\ call.op = "stop"
  /\ LET r2 == Recording_setError(recording, NativeError)
     IN /\ recording' = r2
        /\ call' = NoCall
        /\ ev' = Threw("stop")
        /\ run' = "off"
        /\ Track(r2)
        /\ UNCHANGED <<hookVars, pbVars, staticVars, coord, recordingInstance, timers>>

(* --------------------- AudioRecordingService.cancel -------------------- *)
\* no handle: reset(), return
RecCancelNoHandle ==
  /\ coord = "rec"
  /\ call = NoCall
  /\ ~recordingInstance.set
  /\ LET r2 == Recording_reset(recording)
     IN /\ recording' = r2
        /\ ev' = Returned("cancel")
        /\ run' = "off"
        /\ Track(r2)
        /\ UNCHANGED <<hookVars, pbVars, staticVars, coord, recordingInstance, timers, call>>

\* a handle: stopAndUnloadAsync() is invoked and awaited
RecCancelCall ==
  /\ coord = "rec"
  /\ call = NoCall
  /\ recordingInstance.set
  /\ call' = Await("cancel", "stopAndUnloadAsync")
  /\ recordingInstance' = [recordingInstance EXCEPT !.torn = TRUE]
  /\ ev' = Event("cancel", "stopAndUnloadAsync")
  /\ run' = "off"
  /\ Track(recording)
  /\ UNCHANGED <<hookVars, pbVars, staticVars, coord, recording, timers>>

\* stopAndUnloadAsync resolved: recordingInstance = null; reset(); return
RecCancelResolved ==
  /\ coord = "rec"
  /\ call.op = "cancel"
  /\ LET r2 == Recording_reset(recording)
     IN /\ recording' = r2
        /\ RecReplaceInstance(NoInstance)
        /\ call' = NoCall
        /\ ev' = Returned("cancel")
        /\ run' = "off"
        /\ Track(r2)
        /\ UNCHANGED <<hookVars, pbVars, staticVars, coord>>

\* the session cancel() leaves when stopAndUnloadAsync rejected: the catch
\* block runs setError(err); reset() is skipped
RecCancelFailure(r) == Recording_setError(r, NativeError)

\* stopAndUnloadAsync rejected: catch, setError(err), throw err
RecCancelRejected ==
  /\ coord = "rec"
  /\ call.op = "cancel"
  /\ LET r2 == RecCancelFailure(recording)
     IN /\ recording' = r2
        /\ call' = NoCall
        /\ ev' = Threw("cancel")
        /\ run' = "off"
        /\ Track(r2)
        /\ UNCHANGED <<hookVars, pbVars, staticVars, coord, recordingInstance, timers>>

(* ---------------- AudioRecordingService.stopStatusUpdate --------------- *)
\* the handle's interval after stopStatusUpdate(): with a handle and an id
\* stored on it, clearInterval(id) and the property is set to null
RecStopStatusUpdate ==
  IF recordingInstance.set /\ recordingInstance.interval # "null"
  THEN clearInterval(recordingInstance.interval)
  ELSE recordingInstance.interval

(* --------------------- AudioRecordingService.dispose ------------------- *)
\* dispose() that keeps the last error
RecDisposeSession_KeepsError(r) == [Recording_reset(r) EXCEPT !.error = r.error]

\* the session dispose() leaves: this.recording.reset()
RecDisposeSession(r) == Recording_reset(r)

\* synchronous: stopStatusUpdate(); recordingInstance = null; recording.reset().
\* A method suspended on an await stays suspended and resumes later.
RecDispose ==
  /\ coord = "rec"
  /\ timers' = Orphan(timers, RecStopStatusUpdate)
  /\ recordingInstance' = NoInstance
  /\ LET r2 == RecDisposeSession(recording)
     IN /\ recording' = r2
        /\ ev' = Returned("dispose")
        /\ run' = "off"
        /\ Track(r2)
        /\ UNCHANGED <<hookVars, pbVars, staticVars, coord, call>>

(* ------------- AudioRecordingService.startStatusUpdate callback -------- *)
\* The callback closes over its own interval id and over `this`.  own: the
\* interval is the one the current handle's property names.
RecTimerIs(own, tm) ==
  IF own THEN recordingInstance.set /\ recordingInstance.interval = tm
         ELSE timers[tm] > 0
\* the interval moves from state tm to state tm2
RecTimerMove(own, tm, tm2) ==
  IF own
  THEN /\ recordingInstance' = [recordingInstance EXCEPT !.interval = tm2]
       /\ timers' = timers
  ELSE /\ timers' = Orphan(Without(timers, tm), tm2)
       /\ recordingInstance' = recordingInstance

\* the interval fires: no handle, clearInterval(interval); else
\* getStatusAsync() is invoked on the current handle and awaited
RecTickFire(own) ==
  /\ coord = "rec"
  /\ RecTimerIs(own, "idle")
  /\ IF ~recordingInstance.set
     THEN /\ RecTimerMove(own, "idle", "dead")
          /\ ev' = Event("tick", "none")
     ELSE /\ RecTimerMove(own, "idle", "busy")
          /\ ev' = Event("tick", "getStatusAsync")
  /\ run' = run
  /\ Track(recording)
  /\ UNCHANGED <<hookVars, pbVars, staticVars, coord, recording, call>>

\* the session a callback leaves when its status query resolved:
\* setStatus({durationMillis}); setDuration(status.durationMillis || 0)
\* the RecordingStatus a tick stores; its durationMillis is the duration
\* stored with it
RecordingStatus == << "durationMillis" >>
RecTickWrite(r, d) == Recording_setDuration(Recording_setStatus(r, RecordingStatus), d)

\* getStatusAsync resolved: write the session;
\* if (!status.isRecording) clearInterval(interval)
RecTickStatus(own, tm) ==
  /\ coord = "rec"
  /\ tm \in {"busy", "zombie"}
  /\ RecTimerIs(own, tm)
  /\ \E d \in Millis, isRecording \in BOOLEAN :
       LET r2 == RecTickWrite(recording, d)
       IN /\ recording' = r2
          /\ RecTimerMove(own, tm, IF isRecording /\ tm = "busy" THEN "idle" ELSE "dead")
          /\ ev' = [Event("tick", "none") EXCEPT !.loaded = TRUE]
          /\ run' = run
          /\ Track(r2)
          /\ UNCHANGED <<hookVars, pbVars, staticVars, coord, call>>

\* getStatusAsync rejected: catch, clearInterval(interval)
RecTickRejected(own, tm) ==
  /\ coord = "rec"
  /\ tm \in {"busy", "zombie"}
  /\ RecTimerIs(own, tm)
  /\ RecTimerMove(own, tm, "dead")
  /\ ev' = Event("tick", "none")
  /\ run' = run
  /\ Track(recording)
  /\ UNCHANGED <<hookVars, pbVars, staticVars, coord, recording, call>>

(* ================= AudioPlaybackService (instance coordinator) ========== *)
\* the status object a callback stores.  durationMillis and positionMillis
\* go to setDuration and setPosition in the same block, the other fields of
\* PlaybackStatus are copied along and never read: the stored object keeps
\* didJustFinish
PlaybackStatus(fin) == << [didJustFinish |-> fin] >>

(* ------------------ AudioPlaybackService.stopStatusUpdate -------------- *)
\* if (this.statusUpdateInterval) { clearInterval(it); it = null }: the
\* interval the field named is cleared and no property names it any more
PbStopStatusUpdate ==
  /\ statusUpdateInterval' = "null"
  /\ timers' = Orphan(timers, clearInterval(statusUpdateInterval))

(* ---------------------- AudioPlaybackService.load ---------------------- *)
\* setState(LOADING); a sound is loaded: unload() is called, it invokes
\* unloadAsync() and awaits it
PbLoadUnloadCall(uri) ==
  /\ coord \in PbCoords
  /\ call = NoCall
  /\ PbCallbacksInFlight < MaxPbTimers
  /\ soundInstance.set
  /\ playback' = Playback_setState(playback, LOADING)
  /\ soundInstance' = [soundInstance EXCEPT !.torn = TRUE]
  /\ call' = [Await("load", "unloadAsync") EXCEPT !.uri = uri]
  /\ ev' = Event("load", "unloadAsync")
  /\ UNCHANGED <<hookVars, recVars, staticVars, coord, statusUpdateInterval, timers>>

\* setState(LOADING); no sound is loaded: Audio.Sound.createAsync({uri},
\* options) is invoked and awaited
PbLoadCall(uri) ==
  /\ coord \in PbCoords
  /\ call = NoCall
  /\ PbCallbacksInFlight < MaxPbTimers
  /\ ~soundInstance.set
  /\ playback' = Playback_setState(playback, LOADING)
  /\ call' = [Await("load", "createAsync") EXCEPT !.uri = uri]
  /\ ev' = Event("load", "createAsync")
  /\ UNCHANGED <<hookVars, recVars, staticVars, coord, soundInstance, statusUpdateInterval, timers>>

\* unloadAsync resolved inside load(): unload() ends with soundInstance =
\* null; stopStatusUpdate(); playback.reset(); load() goes on (the
\* continuation is a microtask): createAsync is invoked and awaited
PbLoadUnloaded ==
  /\ coord \in PbCoords
  /\ call.op = "load" /\ call.pc = "unloadAsync"
  /\ soundInstance' = NoSound
  /\ PbStopStatusUpdate
  /\ playback' = Playback_reset(playback)
  /\ call' = [call EXCEPT !.pc = "createAsync"]
  /\ ev' = Event("load", "createAsync")
  /\ UNCHANGED <<hookVars, recVars, staticVars, coord>>

\* createAsync resolved with a sound: soundInstance = sound; setUri(uri);
\* getStatusAsync() is invoked and awaited
PbLoadCreated ==
  /\ coord \in PbCoords
  /\ call.op = "load" /\ call.pc = "createAsync"
  /\ soundInstance' = NewSound
  /\ playback' = Playback_setUri(playback, call.uri)
  /\ call' = [call EXCEPT !.pc = "getStatusAsync"]
  /\ ev' = [Event("load", "getStatusAsync") EXCEPT
              !.lost = soundInstance.set /\ ~soundInstance.torn]
  /\ UNCHANGED <<hookVars, recVars, staticVars, coord, statusUpdateInterval, timers>>

\* startStatusUpdate(): no sound, no interval; else statusUpdateInterval =
\* setInterval(...), whatever the field named before
PbStartStatusUpdate ==
  IF ~soundInstance.set
  THEN UNCHANGED <<statusUpdateInterval, timers>>
  ELSE /\ statusUpdateInterval' = "idle"
       /\ timers' = Orphan(timers, statusUpdateInterval)

\* getStatusAsync resolved: if (status.isLoaded) { setDuration; setPosition;
\* setState(READY) }; startStatusUpdate(); return
PbLoadStatusRead ==
  /\ coord \in PbCoords
  /\ call.op = "load" /\ call.pc = "getStatusAsync"
  /\ \E isLoaded \in BOOLEAN, d \in Millis, pos \in Millis :
       /\ playback' = IF isLoaded
                      THEN Playback_setState(
                             Playback_setPosition(Playback_setDuration(playback, d), pos),
                             READY)
                      ELSE playback
       /\ PbStartStatusUpdate
       /\ call' = NoCall
       /\ ev' = Returned("load")
       /\ UNCHANGED <<hookVars, recVars, staticVars, coord, soundInstance>>

\* unloadAsync (unload() catches and rethrows, then load() does), createAsync
\* or getStatusAsync rejected: catch, setError(err), throw err
PbLoadRejected ==
  /\ coord \in PbCoords
  /\ call.op = "load"
  /\ playback' = Playback_setError(playback, NativeError)
  /\ call' = NoCall
  /\ ev' = Threw("load")
  /\ UNCHANGED <<hookVars, recVars, staticVars, coord, soundInstance, statusUpdateInterval, timers>>

(* ---------------------- AudioPlaybackService.unload -------------------- *)
\* no sound: stopStatusUpdate(); reset(); return
PbUnloadNoSound ==
  /\ coord \in PbCoords
  /\ call = NoCall
  /\ ~soundInstance.set
  /\ PbStopStatusUpdate
  /\ playback' = Playback_reset(playback)
  /\ ev' = Returned("unload")
  /\ UNCHANGED <<hookVars, recVars, staticVars, coord, soundInstance, call>>

\* a sound: unloadAsync() is invoked and awaited
PbUnloadCall ==
  /\ coord \in PbCoords
  /\ call = NoCall
  /\ soundInstance.set
  /\ soundInstance' = [soundInstance EXCEPT !.torn = TRUE]
  /\ call' = Await("unload", "unloadAsync")
  /\ ev' = Event("unload", "unloadAsync")
  /\ UNCHANGED <<hookVars, recVars, staticVars, coord, playback, statusUpdateInterval, timers>>

\* unloadAsync resolved: soundInstance = null; stopStatusUpdate(); reset()
PbUnloadResolved ==
  /\ coord \in PbCoords
  /\ call.op = "unload"
  /\ soundInstance' = NoSound
  /\ PbStopStatusUpdate
  /\ playback' = Playback_reset(playback)
  /\ call' = NoCall
  /\ ev' = Returned("unload")
  /\ UNCHANGED <<hookVars, recVars, staticVars, coord>>

\* unloadAsync rejected: catch, setError(err), throw err
PbUnloadRejected ==
  /\ coord \in PbCoords
  /\ call.op = "unload"
  /\ playback' = Playback_setError(playback, NativeError)
  /\ call' = NoCall
  /\ ev' = Threw("unload")
  /\ UNCHANGED <<hookVars, recVars, staticVars, coord, soundInstance, statusUpdateInterval, timers>>

(* ----------------- AudioPlaybackService.play / pause / stop ------------ *)
\* the guard, the state set before the native call, the primitive, the
\* refusal message of play(), pause() and stop()
PbOps == {"play", "pause", "stop"}
PbCan_HandleOnly(op) == TRUE
PbCan(op) ==
  CASE op = "play" -> Playback_canPlay(playback)
    [] op = "pause" -> Playback_canPause(playback)
    [] op = "stop" -> Playback_canStop(playback)
PbTarget(op) ==
  CASE op = "play" -> PLAYING
    [] op = "pause" -> PAUSED
    [] op = "stop" -> STOPPED
PbPrimitive(op) ==
  CASE op = "play" -> "playAsync"
    [] op = "pause" -> "pauseAsync"
    [] op = "stop" -> "stopAsync"
PbRefusal(op) ==
  CASE op = "play" -> "Cannot play audio"
    [] op = "pause" -> "Cannot pause audio"
    [] op = "stop" -> "Cannot stop audio"

\* !soundInstance || !can<Op>: throw inside the try, catch, setError, throw
PbOpRefused(op) ==
  /\ coord = "pb"
  /\ call = NoCall
  /\ ~soundInstance.set \/ ~PbCan(op)
  /\ playback' = Playback_setError(playback, PbRefusal(op))
  /\ ev' = Threw(op)
  /\ UNCHANGED <<hookVars, recVars, staticVars, coord, soundInstance, statusUpdateInterval, timers, call>>

\* setState(...); the native primitive is invoked and awaited
PbOpCall(op) ==
  /\ coord = "pb"
  /\ call = NoCall
  /\ soundInstance.set /\ PbCan(op)
  /\ playback' = Playback_setState(playback, PbTarget(op))
  /\ call' = Await(op, PbPrimitive(op))
  /\ ev' = Event(op, PbPrimitive(op))
  /\ UNCHANGED <<hookVars, recVars, staticVars, coord, soundInstance, statusUpdateInterval, timers>>

\* the primitive resolved: stop() runs setPosition(0); return
PbOpResolved(op) ==
  /\ coord = "pb"
  /\ call.op = op
  /\ playback' = IF op = "stop" THEN Playback_setPosition(playback, 0) ELSE playback
  /\ call' = NoCall
  /\ ev' = Returned(op)
  /\ UNCHANGED <<hookVars, recVars, staticVars, coord, soundInstance, statusUpdateInterval, timers>>

\* the primitive rejected: catch, setError(err), throw err
PbOpRejected(op) ==
  /\ coord = "pb"
  /\ call.op = op
  /\ playback' = Playback_setError(playback, NativeError)
  /\ call' = NoCall
  /\ ev' = Threw(op)
  /\ UNCHANGED <<hookVars, recVars, staticVars, coord, soundInstance, statusUpdateInterval, timers>>

(* -------------------- AudioPlaybackService.setLooping ------------------ *)
\* no sound: throw inside the try, catch, setError(err), throw err
PbSetLoopingRefused ==
  /\ coord = "pb"
  /\ call = NoCall
  /\ ~soundInstance.set
  /\ playback' = Playback_setError(playback, "No sound loaded")
  /\ ev' = Threw("setLooping")
  /\ UNCHANGED <<hookVars, recVars, staticVars, coord, soundInstance, statusUpdateInterval, timers, call>>

\* setIsLoopingAsync(isLooping) is invoked and awaited
PbSetLoopingCall(b) ==
  /\ coord = "pb"
  /\ call = NoCall
  /\ soundInstance.set
  /\ call' = [Await("setLooping", "setIsLoopingAsync") EXCEPT !.flag = b]
  /\ ev' = Event("setLooping", "setIsLoopingAsync")
  /\ UNCHANGED <<hookVars, recVars, staticVars, coord, playback, soundInstance, statusUpdateInterval, timers>>

\* setIsLoopingAsync resolved: playback.setLooping(isLooping); return
PbSetLoopingResolved ==
  /\ coord = "pb"
  /\ call.op = "setLooping"
  /\ playback' = Playback_setLooping(playback, call.flag)
  /\ call' = NoCall
  /\ ev' = Returned("setLooping")
  /\ UNCHANGED <<hookVars, recVars, staticVars, coord, soundInstance, statusUpdateInterval, timers>>

\* setIsLoopingAsync rejected: catch, setError(err), throw err
PbSetLoopingRejected ==
  /\ coord = "pb"
  /\ call.op = "setLooping"
  /\ playback' = Playback_setError(playback, NativeError)
  /\ call' = NoCall
  /\ ev' = Threw("setLooping")
  /\ UNCHANGED <<hookVars, recVars, staticVars, coord, soundInstance, statusUpdateInterval, timers>>

(* ------------------------ AudioPlaybackService.seek -------------------- *)
\* !soundInstance || !canSeek: throw inside the try, catch, setError, throw
PbSeekRefused ==
  /\ coord = "pb"
  /\ call = NoCall
  /\ ~soundInstance.set \/ ~Playback_canSeek(playback)
  /\ playback' = Playback_setError(playback, "Cannot seek audio")
  /\ ev' = Threw("seek")
  /\ UNCHANGED <<hookVars, recVars, staticVars, coord, soundInstance, statusUpdateInterval, timers, call>>

\* setPositionAsync(position) is invoked and awaited
PbSeekCall(pos) ==
  /\ coord = "pb"
  /\ call = NoCall
  /\ soundInstance.set /\ Playback_canSeek(playback)
  /\ call' = [Await("seek", "setPositionAsync") EXCEPT !.num = pos]
  /\ ev' = Event("seek", "setPositionAsync")
  /\ UNCHANGED <<hookVars, recVars, staticVars, coord, playback, soundInstance, statusUpdateInterval, timers>>

\* setPositionAsync resolved: playback.setPosition(position); return
PbSeekResolved ==
  /\ coord = "pb"
  /\ call.op = "seek"
  /\ playback' = Playback_setPosition(playback, call.num)
  /\ call' = NoCall
  /\ ev' = Returned("seek")
  /\ UNCHANGED <<hookVars, recVars, staticVars, coord, soundInstance, statusUpdateInterval, timers>>

\* setPositionAsync rejected: catch, setError(err), throw err
PbSeekRejected ==
  /\ coord = "pb"
  /\ call.op = "seek"
  /\ playback' = Playback_setError(playback, NativeError)
  /\ call' = NoCall
  /\ ev' = Threw("seek")
  /\ UNCHANGED <<hookVars, recVars, staticVars, coord, soundInstance, statusUpdateInterval, timers>>

(* ------- AudioPlaybackService.setVolume / setPlaybackRate / setMuted --- *)
\* the setters of an option other than isLooping, the values a caller passes
\* (setMuted(TRUE) is "on", setMuted(FALSE) is "off"), the native primitive,
\* the entity's setter
PbSetters == {"setVolume", "setPlaybackRate", "setMuted"}
PbSetArgs(op) ==
  CASE op = "setVolume" -> Volumes
    [] op = "setPlaybackRate" -> PlaybackRates
    [] op = "setMuted" -> {0, 1}
PbSetPrimitive(op) ==
  CASE op = "setVolume" -> "setVolumeAsync"
    [] op = "setPlaybackRate" -> "setRateAsync"
    [] op = "setMuted" -> "setIsMutedAsync"
PbSetOption(p, op, v) ==
  CASE op = "setVolume" -> Playback_setVolume(p, v)
    [] op = "setPlaybackRate" -> Playback_setPlaybackRate(p, v)
    [] op = "setMuted" -> Playback_setMuted(p, v = 1)

\* no sound: throw inside the try, catch, setError(err), throw err
PbSetRefused(op) ==
  /\ coord = op
  /\ call = NoCall
  /\ ~soundInstance.set
  /\ playback' = Playback_setError(playback, "No sound loaded")
  /\ ev' = Threw(op)
  /\ UNCHANGED <<hookVars, recVars, staticVars, coord, soundInstance, statusUpdateInterval, timers, call>>

\* the native setter is invoked with the value and awaited
PbSetCall(op, v) ==
  /\ coord = op
  /\ call = NoCall
  /\ soundInstance.set
  /\ call' = [Await(op, PbSetPrimitive(op)) EXCEPT !.num = v]
  /\ ev' = Event(op, PbSetPrimitive(op))
  /\ UNCHANGED <<hookVars, recVars, staticVars, coord, playback, soundInstance, statusUpdateInterval, timers>>

\* the native setter resolved: the value is mirrored into the options; return
PbSetResolved(op) ==
  /\ coord = op
  /\ call.op = op
  /\ playback' = PbSetOption(playback, op, call.num)
  /\ call' = NoCall
  /\ ev' = Returned(op)
  /\ UNCHANGED <<hookVars, recVars, staticVars, coord, soundInstance, statusUpdateInterval, timers>>

\* the setter applied before its native call settled
PbSetFailure_Applied(p, op, v) == Playback_setError(PbSetOption(p, op, v), NativeError)

\* the session a setter leaves when its native call rejected: the value is
\* not mirrored; catch, setError(err)
PbSetFailure(p, op, v) == Playback_setError(p, NativeError)

\* the native setter rejected: catch, setError(err), throw err
PbSetRejected(op) ==
  /\ coord = op
  /\ call.op = op
  /\ playback' = PbSetFailure(playback, op, call.num)
  /\ call' = NoCall
  /\ ev' = Threw(op)
  /\ UNCHANGED <<hookVars, recVars, staticVars, coord, soundInstance, statusUpdateInterval, timers>>

\* the option setters
PbSetNext ==
  \/ \E op \in PbSetters : PbSetRefused(op)
  \/ \E op \in PbSetters : \E v \in PbSetArgs(op) : PbSetCall(op, v)
  \/ \E op \in PbSetters : PbSetResolved(op)
  \/ \E op \in PbSetters : PbSetRejected(op)

(* ---------------------- AudioPlaybackService.dispose ------------------- *)
\* the session dispose() leaves: this.playback.reset()
PbDisposeSession(p) == Playback_reset(p)

\* synchronous: stopStatusUpdate(); soundInstance = null; playback.reset().
\* A method suspended on an await stays suspended and resumes later.
PbDispose ==
  /\ coord \in PbCoords
  /\ PbStopStatusUpdate
  /\ soundInstance' = NoSound
  /\ playback' = PbDisposeSession(playback)
  /\ ev' = Returned("dispose")
  /\ UNCHANGED <<hookVars, recVars, staticVars, coord, call>>

(* -------------- AudioPlaybackService.startStatusUpdate callback -------- *)
\* own: the interval is the one statusUpdateInterval names
PbTimerIs(own, tm) ==
  IF own THEN statusUpdateInterval = tm ELSE timers[tm] > 0

\* The callback of an interval in state tm ends.  stop: it called
\* stopStatusUpdate(), which clears the interval the field names at that
\* moment, the callback's own or another one.
PbTickEnd(own, tm, stop) ==
  LET after == IF tm = "busy" THEN "idle" ELSE "dead"
  IN IF own
     THEN /\ statusUpdateInterval' = IF stop THEN "null" ELSE after
          /\ timers' = timers
     ELSE /\ statusUpdateInterval' = IF stop THEN "null" ELSE statusUpdateInterval
          /\ timers' = Orphan(Orphan(Without(timers, tm), after),
                              IF stop THEN clearInterval(statusUpdateInterval) ELSE "dead")

\* the interval fires.  No sound: stopStatusUpdate(); return.  Else
\* getStatusAsync() is invoked on the sound and awaited.
PbTickFire(own) ==
  /\ coord \in PbCoords
  /\ PbTimerIs(own, "idle")
  /\ IF ~soundInstance.set
     THEN /\ PbTickEnd(own, "busy", TRUE)
          /\ ev' = Event("tick", "none")
     ELSE /\ IF own
             THEN /\ statusUpdateInterval' = "busy"
                  /\ timers' = timers
             ELSE /\ timers' = Orphan(Without(timers, "idle"), "busy")
                  /\ statusUpdateInterval' = statusUpdateInterval
          /\ ev' = Event("tick", "getStatusAsync")
  /\ UNCHANGED <<hookVars, recVars, staticVars, coord, playback, soundInstance, call>>

\* getStatusAsync rejected, or resolved with isLoaded false:
\* stopStatusUpdate(); nothing is written
PbTickStopped(own, tm) ==
  /\ coord \in PbCoords
  /\ tm \in {"busy", "zombie"}
  /\ PbTimerIs(own, tm)
  /\ PbTickEnd(own, tm, TRUE)
  /\ ev' = Event("tick", "none")
  /\ UNCHANGED <<hookVars, recVars, staticVars, coord, playback, soundInstance, call>>

\* completion detection that does not look at isLooping
PbTickCompletes_IgnoresLooping(p, fin) == fin

\* whether a callback that read didJustFinish = fin ends the polling:
\* status.didJustFinish && !this.playback.isLooping
PbTickCompletes(p, fin) == fin /\ ~Playback_isLooping(p)

\* getStatusAsync resolved with a loaded status: setStatus; setDuration;
\* setPosition; on completion setState(COMPLETED) and stopStatusUpdate()
PbTickStatus(own, tm) ==
  /\ coord \in PbCoords
  /\ tm \in {"busy", "zombie"}
  /\ PbTimerIs(own, tm)
  /\ \E fin \in BOOLEAN, d \in Millis, pos \in Millis :
       LET p1 == Playback_setPosition(
                   Playback_setDuration(
                     Playback_setStatus(playback, PlaybackStatus(fin)), d), pos)
           done == PbTickCompletes(p1, fin)
       IN /\ playback' = IF done THEN Playback_setState(p1, COMPLETED) ELSE p1
          /\ PbTickEnd(own, tm, done)
          /\ ev' = [Event("tick", "none") EXCEPT !.loaded = TRUE]
  /\ UNCHANGED <<hookVars, recVars, staticVars, coord, soundInstance, call>>

PbNext ==
  \/ \E uri \in PbUris : PbLoadUnloadCall(uri)
  \/ \E uri \in PbUris : PbLoadCall(uri)
  \/ PbLoadUnloaded
  \/ PbLoadCreated
  \/ PbLoadStatusRead
  \/ PbLoadRejected
  \/ PbUnloadNoSound
  \/ PbUnloadCall
  \/ PbUnloadResolved
  \/ PbUnloadRejected
  \/ \E op \in PbOps : PbOpRefused(op)
  \/ \E op \in PbOps : PbOpCall(op)
  \/ \E op \in PbOps : PbOpResolved(op)
  \/ \E op \in PbOps : PbOpRejected(op)
  \/ PbSetLoopingRefused
  \/ \E b \in BOOLEAN : PbSetLoopingCall(b)
  \/ PbSetLoopingResolved
  \/ PbSetLoopingRejected
  \/ PbSeekRefused
  \/ \E pos \in SeekPositions : PbSeekCall(pos)
  \/ PbSeekResolved
  \/ PbSeekRejected
  \/ PbDispose
  \/ \E own \in BOOLEAN : PbTickFire(own)
  \/ \E own \in BOOLEAN, tm \in {"busy", "zombie"} : PbTickStopped(own, tm)
  \/ \E own \in BOOLEAN, tm \in {"busy", "zombie"} : PbTickStatus(own, tm)

RecNext ==
  \/ RecPrepareCall
  \/ RecPrepareResolved
  \/ RecPrepareRejected
  \/ RecStartRefused
  \/ RecStartCall
  \/ RecStartStarted
  \/ RecStartStatusRead
  \/ RecStartRejected
  \/ RecPauseRefused
  \/ RecPauseCall
  \/ RecPauseResolved
  \/ RecPauseRejected
  \/ RecStopRefused
  \/ RecStopCall
  \/ RecStopResolved
  \/ RecStopRejected
  \/ RecCancelNoHandle
  \/ RecCancelCall
  \/ RecCancelResolved
  \/ RecCancelRejected
  \/ RecDispose
  \/ \E own \in BOOLEAN : RecTickFire(own)
  \/ \E own \in BOOLEAN, tm \in {"busy", "zombie"} : RecTickStatus(own, tm)
  \/ \E own \in BOOLEAN, tm \in {"busy", "zombie"} : RecTickRejected(own, tm)

Next == RecNext \/ PbNext

\* one coordinator instance of either class
InitBoth == Init /\ coord \in {"rec", "pb"}
Spec == InitBoth /\ [][Next]_vars

\* one AudioRecordingService instance
InitRec == Init /\ coord = "rec"
SpecRec == InitRec /\ [][RecNext]_vars

\* one AudioPlaybackService instance
InitPb == Init /\ coord = "pb"
SpecPb == InitPb /\ [][PbNext]_vars

\* one AudioPlaybackService instance, the caller either playing and looping
\* or calling one of the other setters
PbAllNext == PbNext \/ PbSetNext
InitPbAll == Init /\ coord \in PbCoords
SpecPbAll == InitPbAll /\ [][PbAllNext]_vars

\* one coordinator instance of either class, every method called
FullNext == RecNext \/ PbNext \/ PbSetNext
SpecFull == Init /\ [][FullNext]_vars

(* ============================== claims ================================= *)
\* the states of a take, in order; how many of them the session has taken
\* when the cursor is at run
TakeStates == <<IDLE, PREPARING, IDLE, RECORDING>>
TakeSeen ==
  CASE run = "fresh" -> 1
    [] run = "prepare" -> 2
    [] run = "prepared" -> 3
    [] OTHER -> 4

\* C1: on a new session a prepare() that returns followed by a start() that
\* returns takes the session state through exactly Idle, Preparing, Idle,
\* Recording, in that order, and uri is null in every state before start()
\* has read the native status.
C1_PrepareStartStates ==
  /\ run \in {"fresh", "prepare", "prepared", "start", "started"} =>
       /\ hist = SubSeq(TakeStates, 1, TakeSeen)
       /\ recording.state = hist[Len(hist)]
  /\ run \in {"fresh", "prepare", "prepared", "start"} => recording.uri = NoUri

\* C1 witness: start() returned at the end of the take, the status it read
\* carried a uri.
C1_Witness ==
  /\ run = "started"
  /\ ev = Returned("start")
  /\ recording.uri # NoUri
  /\ hist = TakeStates

\* C2 as stated: pause() called while the session state is not Recording
\* throws and leaves the session state unchanged.
C2_PauseRefusedKeepsState ==
  [][ev'.op = "pause" /\ call = NoCall /\ recording.state # RECORDING =>
       ev' = Threw("pause") /\ recording'.state = recording.state]_vars

\* C2 amended: pause() called while the session state is not Recording throws
\* without invoking native pause and moves the session to Error with the
\* error "Cannot pause recording", the other session fields and the handle
\* unchanged; pause() in state Recording sets Paused and invokes native
\* pause, whose failure moves the session to Error as well.
C2_PauseRefusedMovesToError ==
  [][/\ ev'.op = "pause" /\ call = NoCall /\ recording.state # RECORDING =>
          /\ ev' = Threw("pause")
          /\ recording' = [recording EXCEPT !.state = ERROR,
                                             !.error = "Cannot pause recording"]
          /\ recordingInstance' = recordingInstance
          /\ call' = NoCall
     /\ ev'.op = "pause" /\ call = NoCall /\ recording.state = RECORDING
          /\ recordingInstance.set =>
          ev'.native = "pauseAsync" /\ recording'.state = PAUSED
     /\ call.op = "pause" /\ ev' = Threw("pause") =>
          recording'.state = ERROR /\ recording'.error = NativeError]_vars

\* C2 witness: pause() was refused on a coordinator that holds a handle, so
\* for the session state alone; the session is in Error.
C2_Witness ==
  /\ ev = Threw("pause")
  /\ recordingInstance.set
  /\ recording.state = ERROR
  /\ recording.error = "Cannot pause recording"

\* C3: when stop() returns without throwing the session state is Stopped and
\* the handle reference is null; only prepare() makes the reference non-null
\* again; start() called with a null reference throws without invoking
\* native start.
C3_StopThenStart ==
  [][/\ ev' = Returned("stop") =>
          recording'.state = STOPPED /\ recordingInstance' = NoInstance
     /\ ~recordingInstance.set /\ recordingInstance'.set => ev'.op = "prepare"
     /\ ev'.op = "start" /\ call = NoCall /\ ~recordingInstance.set =>
          /\ ev' = Threw("start")
          /\ recordingInstance' = recordingInstance
          /\ call' = NoCall]_vars

\* C3 witness: start() was refused for want of a handle on a session that
\* still carries the uri of a stopped take.
C3_Witness ==
  /\ ev = Threw("start")
  /\ ~recordingInstance.set
  /\ recording.uri # NoUri
  /\ recording.error = "Recording not prepared. Call prepare() first."

\* C4: the recording session's uri is non-null only if its state is one of
\* Recording, Paused, Stopping, Stopped.
C4_UriOnlyWhileTaking ==
  recording.uri # NoUri => recording.state \in {RECORDING, PAUSED, STOPPING, STOPPED}

\* C5: cancel() always ends by returning with the session reset to Idle, uri
\* null, duration 0 and error null, also when native stop-and-unload failed.
C5_CancelAlwaysResets ==
  ev.op = "cancel" /\ ev.ret # "none" =>
    /\ ev.ret = "returned"
    /\ recording.state = IDLE
    /\ recording.uri = NoUri
    /\ recording.duration = 0
    /\ recording.error = NoError

\* C6: dispose() of either coordinator returns (it never throws) with the
\* session Idle, uri null, duration 0, error null and the handle reference
\* null; a second dispose() right after the first changes nothing.
C6_DisposeIdempotent ==
  [][ev'.op = "dispose" =>
       /\ ev' = Returned("dispose")
       /\ coord = "rec" =>
            /\ recording'.state = IDLE /\ recording'.uri = NoUri
            /\ recording'.duration = 0 /\ recording'.error = NoError
            /\ ~recordingInstance'.set
       /\ coord = "pb" =>
            /\ playback'.state = IDLE /\ playback'.uri = NoUri
            /\ playback'.duration = 0 /\ playback'.error = NoError
            /\ ~soundInstance'.set
       /\ ev.op = "dispose" =>
            UNCHANGED <<recording, recordingInstance, playback, soundInstance,
                        statusUpdateInterval, timers, call>>]_vars

\* C6 witness: dispose() returned while a method was suspended on an await
\* and a callback of the interval it cleared was in flight.
C6_Witness ==
  /\ ev = Returned("dispose")
  /\ call # NoCall
  /\ timers.zombie > 0

\* C7: no block overwrites the reference to a handle on which the teardown
\* primitive has not been invoked.
C7_NoHandleDroppedUntorn == ~ev.lost

\* C8: a playback callback that received a loaded status with didJustFinish
\* true: with isLooping false the session state becomes Completed and no
\* interval is left to fire; with isLooping true the session state is
\* unchanged and the callback clears no interval.
C8_TickCompletion ==
  [][ev'.op = "tick" /\ ev'.loaded /\ playback'.status = PlaybackStatus(TRUE) =>
       IF ~Playback_isLooping(playback)
       THEN /\ playback'.state = COMPLETED
            /\ statusUpdateInterval' = "null"
            /\ timers'.idle = 0 /\ timers'.busy = 0
       ELSE /\ playback'.state = playback.state
            /\ \/ statusUpdateInterval' = statusUpdateInterval
               \/ statusUpdateInterval = "busy" /\ statusUpdateInterval' = "idle"
            /\ timers'.idle = timers.idle]_vars

\* C8 witness: with isLooping true a callback read didJustFinish on a Playing
\* session and the interval is active, waiting for its next tick.
C8_Witness ==
  /\ ev.op = "tick" /\ ev.loaded
  /\ playback.status = PlaybackStatus(TRUE)
  /\ Playback_isLooping(playback)
  /\ playback.state = PLAYING
  /\ statusUpdateInterval = "idle"

\* C9: native start is invoked only on a handle whose prepare() returned.
C9_StartOnlyOnPreparedHandle ==
  ev.native = "startAsync" => recordingInstance.prepared

\* C10: once the take's stop() has returned, and whether or not prepare() was
\* called again, no callback of the interval start() created queries the
\* native status or writes to the session.
C10_StopEndsPolling ==
  run = "stopped" =>
    ~(ev.op = "tick" /\ (ev.native = "getStatusAsync" \/ ev.loaded))

\* C11: while the recording session stays Stopped its duration does not
\* change: no step, a poll callback that resumes after stop() included,
\* overwrites the duration stop() stored.
C11_StoppedDurationFrozen ==
  [][(recording.state = STOPPED /\ recording'.state = STOPPED)
       => recording'.duration = recording.duration]_vars

\* C12: when unload() has finished, by returning or by throwing, the poll
\* timer is not active and the playback session is reset: state Idle, uri
\* null, duration 0, position 0.
C12_UnloadAlwaysResets ==
  (ev.op = "unload" /\ ev.ret # "none") =>
    /\ statusUpdateInterval = "null"
    /\ playback.state = IDLE
    /\ playback.uri = NoUri
    /\ playback.duration = 0
    /\ playback.position = 0

\* C14: in every reachable state of the recording session and of the playback
\* session, the state is Error exactly when lastError is non-null.
C14_ErrorIffLastError ==
  /\ recording.state = ERROR <=> recording.error # NoError
  /\ playback.state = ERROR <=> playback.error # NoError

\* C17: a start() call sets the recording session to Recording only when the
\* session is Idle or Stopped (canRecord) at the call, never when it is
\* Preparing, Recording, Paused, Stopping or Error.
C17_StartOnlyWhenCanRecord ==
  [][(call = NoCall /\ ev'.op = "start" /\ recording'.state = RECORDING)
       => Recording_canRecord(recording)]_vars

\* C15: in every reachable state the playback position is at least 0 and at
\* most the duration, whatever position seek() was given or the native status
\* reported.
C15_PositionWithinDuration ==
  /\ 0 <= playback.position
  /\ playback.position <= playback.duration

\* C15 witness: a seek() returned on a source of non-zero duration and left
\* the position at the duration.
C15_Witness ==
  /\ ev = Returned("seek")
  /\ playback.duration > 0
  /\ playback.position = playback.duration

\* C16: in every reachable state the playback progress is a number: exactly 0
\* when the duration is 0, position / duration otherwise, and it lies in
\* [0, 1].
C16_ProgressInUnitInterval ==
  LET progress == Playback_progress(playback)
  IN /\ progress[2] > 0
     /\ 0 <= progress[1] /\ progress[1] <= progress[2]
     /\ playback.duration = 0 => progress[1] = 0
     /\ playback.duration # 0 =>
          progress[1] * playback.duration = playback.position * progress[2]

\* C16 witness: a poll tick stored a non-zero duration and a non-zero
\* position, the progress is above 0.
C16_Witness ==
  /\ ev.op = "tick" /\ ev.loaded
  /\ playback.duration > 0
  /\ Playback_progress(playback)[1] > 0

\* what C18 requires at the call of play(), pause(), stop() and seek(): a
\* loaded handle and the session's matching predicate; the native primitive
\* of each
C18_Ops == {"play", "pause", "stop", "seek"}
C18_Allowed(op) ==
  /\ soundInstance.set
  /\ CASE op = "play" -> Playback_canPlay(playback)
       [] op = "pause" -> Playback_canPause(playback)
       [] op = "stop" -> Playback_canStop(playback)
       [] op = "seek" -> Playback_canSeek(playback)
C18_Primitive(op) ==
  CASE op = "play" -> "playAsync"
    [] op = "pause" -> "pauseAsync"
    [] op = "stop" -> "stopAsync"
    [] op = "seek" -> "setPositionAsync"

\* C18: playAsync, pauseAsync, stopAsync and setPositionAsync are invoked only
\* by the first block of play(), pause(), stop() and seek(), and only when a
\* handle is loaded and canPlay / canPause / canStop / canSeek holds at the
\* call; otherwise the call throws at once and invokes no native primitive.
C18_NativeOnlyWhenAllowed ==
  [][\A op \in C18_Ops :
       /\ ev'.native = C18_Primitive(op) =>
            (call = NoCall /\ ev'.op = op /\ C18_Allowed(op))
       /\ (call = NoCall /\ ev'.op = op /\ ~C18_Allowed(op)) =>
            (ev' = Threw(op) /\ call' = NoCall)]_vars

\* C18 witness: with a handle loaded, seek() was refused because canSeek did
\* not hold, and it threw.
C18_Witness ==
  /\ ev = Threw("seek")
  /\ soundInstance.set
  /\ playback.error = "Cannot seek audio"

\* C19: the blocks of a load(uri) call leave the playback session Loading
\* while the call is in flight, also across the unload of a previous source,
\* and a load(uri) that returns leaves it Ready with uri as its uri.
C19_LoadLoadingThenReady ==
  [][/\ (ev'.op = "load" /\ ev'.ret = "none") => playback'.state = LOADING
     /\ (call.op = "load" /\ ev' = Returned("load")) =>
          (playback'.state = READY /\ playback'.uri = call.uri)]_vars

\* the option setters C20 is about, the option each one mirrors, the native
\* setter of each, the value the call in flight was given
C20_Setters == {"setVolume", "setPlaybackRate", "setLooping", "setMuted"}
C20_Option(p, op) ==
  CASE op = "setVolume" -> p.options.volume
    [] op = "setPlaybackRate" -> p.options.playbackRate
    [] op = "setLooping" -> p.options.isLooping
    [] op = "setMuted" -> p.options.isMuted
C20_Primitive(op) ==
  CASE op = "setVolume" -> "setVolumeAsync"
    [] op = "setPlaybackRate" -> "setRateAsync"
    [] op = "setLooping" -> "setIsLoopingAsync"
    [] op = "setMuted" -> "setIsMutedAsync"
C20_Passed(op) ==
  CASE op = "setVolume" -> call.num
    [] op = "setPlaybackRate" -> call.num
    [] op = "setLooping" -> call.flag
    [] op = "setMuted" -> (call.num = 1)

\* C20: the stored options change only in the step in which a setter returns
\* after its native setter resolved, and then exactly the setter's option
\* takes the value passed; a setter that finds no handle throws without a
\* native call, a setter whose native call rejects throws, and both leave the
\* options unchanged; the native setter is invoked only in the first block of
\* the call, once.
C20_OptionsFollowNativeSetter ==
  [][/\ playback'.options # playback.options =>
          \E op \in C20_Setters :
            /\ call.op = op /\ call.pc = C20_Primitive(op)
            /\ ev' = Returned(op)
            /\ \A o \in C20_Setters \ {op} :
                 C20_Option(playback', o) = C20_Option(playback, o)
     /\ \A op \in C20_Setters :
          /\ (call.op = op /\ ev' = Returned(op)) =>
               C20_Option(playback', op) = C20_Passed(op)
          /\ ev' = Threw(op) => playback'.options = playback.options
          /\ (call = NoCall /\ ev'.op = op /\ ~soundInstance.set) =>
               (ev' = Threw(op) /\ call' = NoCall)
          /\ ev'.native = C20_Primitive(op) =>
               (call = NoCall /\ ev'.op = op /\ soundInstance.set)]_vars

\* C20 witness: setVolume(0) returned and the stored volume, 1.0 by default,
\* is 0.
C20_Witness ==
  /\ ev = Returned("setVolume")
  /\ playback.options.volume = 0

\* the session of the coordinator the behaviour follows; the errors a call in
\* flight can end with: the rejection of its native call, or, in start() when
\* dispose() nulled the handle during startAsync, the TypeError of the read
\* that follows
C13_Session == IF coord = "rec" THEN recording ELSE playback
C13_Ops ==
  {"prepare", "start", "pause", "stop", "load", "play", "seek", "setVolume",
   "setPlaybackRate", "setLooping", "setMuted"}
C13_Thrown ==
  IF call.op = "start" /\ call.pc = "startAsync" /\ ~recordingInstance.set
  THEN {NativeError, TypeError}
  ELSE {NativeError}

C21_OptionsInRange ==
  /\ VOLUME.MIN <= playback.options.volume
  /\ playback.options.volume <= VOLUME.MAX
  /\ PLAYBACK_RATE.MIN <= playback.options.playbackRate
  /\ playback.options.playbackRate <= PLAYBACK_RATE.MAX

\* the poll loops of the playback coordinator that are scheduled and not
\* cleared
C22_PbActive ==
  timers.idle + timers.busy
    + (IF statusUpdateInterval \in {"idle", "busy"} THEN 1 ELSE 0)

\* C22: a poll callback whose getStatusAsync() rejects ends only its own
\* loop (a loop already cleared stays the only one affected), resumes no
\* caller, and leaves the session and the handle reference as they were, in
\* the recording coordinator and in the playback coordinator.
C22_FailedTickStopsOnlyItsLoop ==
  [][\A own \in BOOLEAN, tm \in {"busy", "zombie"} :
       /\ RecTickRejected(own, tm) =>
            /\ recording' = recording
            /\ recordingInstance'.set = recordingInstance.set
            /\ call' = call
            /\ RecAliveTimers' = RecAliveTimers - 1
       /\ PbTickStopped(own, tm) =>
            /\ playback' = playback
            /\ soundInstance' = soundInstance
            /\ call' = call
            /\ C22_PbActive' = C22_PbActive - (IF tm = "busy" THEN 1 ELSE 0)]_vars

\* the poll loops of the recording coordinator that are scheduled and not
\* cleared
C30_RecActive ==
  timers.idle + timers.busy
    + (IF recordingInstance.interval \in {"idle", "busy"} THEN 1 ELSE 0)

\* C30: start() called on a Paused session that has its handle invokes the
\* native startAsync on that same handle and sets the state to Recording;
\* when that start() returns with the handle still in place the state is
\* Recording, a uri the session had is unchanged, and exactly one poll loop
\* of the coordinator is running.
C30_ResumeKeepsOneLoop ==
  [][/\ (call = NoCall /\ recording.state = PAUSED /\ recordingInstance.set
           /\ ev'.op = "start") =>
          /\ ev' = Event("start", "startAsync")
          /\ recordingInstance' = recordingInstance
          /\ recording'.state = RECORDING
     /\ (call.op = "start" /\ call.flag /\ ev' = Returned("start")
           /\ recordingInstance.set) =>
          /\ recording'.state = RECORDING
          /\ (recording.uri # NoUri => recording'.uri = recording.uri)
          /\ recordingInstance'.set
          /\ C30_RecActive' = 1]_vars

(* ---------------------- completion of a playback ----------------------- *)
\* a poll callback reads a loaded status; the native side reports
\* didJustFinish only of a sound the session was playing
PlayTickStatus ==
  /\ PbTickStatus(TRUE, "busy")
  /\ playback'.status = PlaybackStatus(TRUE) => playback.state = PLAYING

\* the caller loads one sound and plays, pauses and stops it; no native call
\* fails and the sound stays loaded
PlayNext ==
  \/ \E uri \in PbUris : PbLoadCall(uri)
  \/ PbLoadCreated
  \/ PbLoadStatusRead
  \/ \E op \in PbOps : PbOpRefused(op)
  \/ \E op \in PbOps : PbOpCall(op)
  \/ \E op \in PbOps : PbOpResolved(op)
  \/ PbTickFire(TRUE)
  \/ PlayTickStatus

\* a poll callback reads a status with didJustFinish true
PbTickFinished ==
  PlayTickStatus /\ playback'.status = PlaybackStatus(TRUE)

\* a scheduled interval fires; a pending native promise settles; a status
\* read again and again reports didJustFinish at some time
PlayFair ==
  /\ WF_vars(PbLoadCreated)
  /\ WF_vars(PbLoadStatusRead)
  /\ WF_vars(\E op \in PbOps : PbOpResolved(op))
  /\ WF_vars(PbTickFire(TRUE))
  /\ WF_vars(PlayTickStatus)
  /\ SF_vars(PbTickFinished)
SpecPlay == InitPb /\ [][PlayNext]_vars /\ PlayFair

\* C23: a session that is Playing with looping off, on a native side that
\* reports didJustFinish, leaves Playing at some time: it becomes Completed
\* unless the caller pauses, stops or plays it before; this holds of a
\* second play() after a completion as of the first.
C23_PlayingEventuallyCompleted ==
  (playback.state = PLAYING /\ ~Playback_isLooping(playback))
    ~> (playback.state # PLAYING)

(* ============ utility functions: audio.utils.ts and AudioUtils ========= *)
\* A string is the sequence of its characters.  Number.prototype.toString of
\* a non-negative integer: its decimal digits
Digits == <<"0", "1", "2", "3", "4", "5", "6", "7", "8", "9">>
RECURSIVE toString(_)
toString(n) ==
  IF n < 10 THEN <<Digits[n + 1]>> ELSE Append(toString(n \div 10), Digits[(n % 10) + 1])

\* a padStart that pads nothing
padStart_None(s, targetLength, padString) == s
\* String.prototype.padStart with a one-character pad: the pad is put in
\* front until the string has targetLength characters; a longer string is
\* returned as it is
RECURSIVE padStart(_, _, _)
padStart(s, targetLength, padString) ==
  IF Len(s) >= targetLength THEN s
  ELSE padStart(<<padString>> \o s, targetLength, padString)

\* Math.floor(x / d) of a non-negative integer x is x \div d
formatDuration(milliseconds) ==
  LET totalSeconds == milliseconds \div 1000
      minutes == totalSeconds \div 60
      seconds == totalSeconds % 60
  IN padStart(toString(minutes), 2, "0") \o <<":">> \o padStart(toString(seconds), 2, "0")

AudioUtils_formatDuration(millis) ==
  LET totalSeconds == millis \div 1000
      minutes == totalSeconds \div 60
      seconds == totalSeconds % 60
  IN padStart(toString(minutes), 2, "0") \o <<":">> \o padStart(toString(seconds), 2, "0")

\* a formatDurationLong that never writes the hours
formatDurationLong_NoHours(milliseconds) ==
  LET totalSeconds == milliseconds \div 1000
      minutes == (totalSeconds % 3600) \div 60
      seconds == totalSeconds % 60
  IN padStart(toString(minutes), 2, "0") \o <<":">> \o padStart(toString(seconds), 2, "0")
formatDurationLong(milliseconds) ==
  LET totalSeconds == milliseconds \div 1000
      hours == totalSeconds \div 3600
      minutes == (totalSeconds % 3600) \div 60
      seconds == totalSeconds % 60
  IN IF hours > 0
     THEN padStart(toString(hours), 2, "0") \o <<":">>
            \o padStart(toString(minutes), 2, "0") \o <<":">>
            \o padStart(toString(seconds), 2, "0")
     ELSE padStart(toString(minutes), 2, "0") \o <<":">> \o padStart(toString(seconds), 2, "0")

\* the durations formatted: hours, minutes, seconds and milliseconds of
\* 125000 ms, of 3725000 ms, of one hundred minutes, of one hundred hours
MaxHours == 2
DurationArgs ==
  { [fn |-> "duration", a |-> ((h * 60 + m) * 60 + s) * 1000 + r, b |-> 0] :
      h \in (0 .. MaxHours) \cup {100}, m \in {0, 2, 40, 59}, s \in {0, 5, 59},
      r \in {0, 999} }

\* a duration formatter is called with the duration
UtilFormat(fn) ==
  /\ coord = "utils"
  /\ args.fn = "duration"
  /\ out' = [fn |-> fn,
             val |-> CASE fn = "formatDuration" -> formatDuration(args.a)
                       [] fn = "AudioUtils.formatDuration" -> AudioUtils_formatDuration(args.a)
                       [] fn = "formatDurationLong" -> formatDurationLong(args.a)]
  /\ UNCHANGED <<hookVars, recVars, pbVars, coord, timers, call, ev, sound, staticRecording, args>>

(* ------------------- IEEE 754 double arithmetic ------------------------ *)
\* A non-negative double is [m, e]: m the bits of its significand, most
\* significant first and at most 53 of them (<< >> is zero), e the exponent
\* of its last bit; its value is BitsValue[m] * 2^e.
Bits[n \in Nat] == IF n = 0 THEN << >> ELSE Append(Bits[n \div 2], n % 2)
BitsValue[s \in Seq({0, 1})] ==
  IF s = << >> THEN 0 ELSE 2 * BitsValue[SubSeq(s, 1, Len(s) - 1)] + s[Len(s)]
\* the bits of BitsValue[s] + 1
Increment[s \in Seq({0, 1})] ==
  IF s = << >> THEN <<1>>
  ELSE IF s[Len(s)] = 0 THEN Append(SubSeq(s, 1, Len(s) - 1), 1)
  ELSE Append(Increment[SubSeq(s, 1, Len(s) - 1)], 0)

\* the double nearest to the exact result whose bits are s (no leading zero)
\* with exponent e, sticky telling that the exact result has a non-zero rest
\* below the last bit of s: round to nearest, ties to even
RoundToDouble(s, e, sticky) ==
  IF Len(s) <= 53 THEN [m |-> s, e |-> e]
  ELSE LET keep == SubSeq(s, 1, 53)
           rest == sticky \/ \E i \in 55 .. Len(s) : s[i] = 1
           up == s[54] = 1 /\ (rest \/ keep[53] = 1)
       IN [m |-> IF up THEN Increment[keep] ELSE keep, e |-> e + (Len(s) - 53)]

\* long division by d: acc holds the quotient bits found so far, r the
\* remainder; bits are added until there are 54, the 53 of a double and the
\* one after
DivideBits[r \in Nat, d \in Nat, acc \in Seq({0, 1}), e \in Int] ==
  IF Len(acc) = 54 THEN RoundToDouble(acc, e, r # 0)
  ELSE LET b == IF 2 * r >= d THEN 1 ELSE 0
       IN DivideBits[2 * r - d * b, d,
                     IF acc = << >> /\ b = 0 THEN acc ELSE Append(acc, b), e - 1]
\* n / d of two integers held as doubles, n >= 0 and d > 0
Double_div(n, d) ==
  IF n = 0 THEN [m |-> << >>, e |-> 0] ELSE DivideBits[n % d, d, Bits[n \div d], 0]

\* the bits of BitsValue[s] * b + c
TimesBits[s \in Seq({0, 1}), b \in Nat, c \in Nat] ==
  IF s = << >> THEN Bits[c]
  ELSE LET t == s[Len(s)] * b + c
       IN Append(TimesBits[SubSeq(s, 1, Len(s) - 1), b, t \div 2], t % 2)
\* x * y, the significand of y being that of an integer below 2^30
Double_times(x, y) == RoundToDouble(TimesBits[x.m, BitsValue[y.m], 0], x.e + y.e, FALSE)

\* Math.floor of a non-negative double with an integer part below 2^31
Math_floor(x) ==
  IF x.e >= 0 THEN BitsValue[x.m] * 2 ^ x.e
  ELSE IF Len(x.m) + x.e > 0 THEN BitsValue[SubSeq(x.m, 1, Len(x.m) + x.e)]
  ELSE 0

\* durationSeconds = durationMillis / 1000;
\* Math.floor((bitRate * durationSeconds) / 8): the division by 8 is exact
calculateFileSize(durationMillis, bitRate) ==
  LET durationSeconds == Double_div(durationMillis, 1000)
      product == Double_times(durationSeconds, [m |-> Bits[bitRate], e |-> 0])
  IN Math_floor([product EXCEPT !.e = @ - 3])

\* durationSeconds = durationMs / 1000;
\* Math.floor((bitRate / 8) * durationSeconds): the division by 8 is exact
AudioUtils_estimateFileSize(durationMs, bitRate) ==
  LET durationSeconds == Double_div(durationMs, 1000)
  IN Math_floor(Double_times(durationSeconds, [m |-> Bits[bitRate], e |-> 0 - 3]))

\* the durations and the bit rates a file size is computed of
FileSizeArgs ==
  { [fn |-> "fileSize", a |-> d, b |-> r] :
      d \in {0, 1, 999, 1000, 1001, 60000}, r \in {0, 8000, 64000, 128000} }

\* a file size estimator is called with a duration and a bit rate
UtilFileSize(fn) ==
  /\ coord = "utils"
  /\ args.fn = "fileSize"
  /\ out' = [fn |-> fn,
             val |-> CASE fn = "calculateFileSize" -> calculateFileSize(args.a, args.b)
                       [] fn = "AudioUtils.estimateFileSize" ->
                            AudioUtils_estimateFileSize(args.a, args.b)]
  /\ UNCHANGED <<hookVars, recVars, pbVars, coord, timers, call, ev, sound, staticRecording, args>>

\* a calculateProgress without Math.min(..., 100)
AudioUtils_calculateProgress_Unbounded(positionMillis, durationMillis) ==
  IF durationMillis = 0 \/ positionMillis < 0 THEN [m |-> << >>, e |-> 0]
  ELSE Double_times(Double_div(positionMillis, durationMillis), [m |-> Bits[100], e |-> 0])
\* if (durationMillis === 0) return 0;
\* Math.min(Math.max((positionMillis / durationMillis) * 100, 0), 100), the
\* duration not negative: a negative position gives a negative quotient, of
\* which Math.max(..., 0) makes 0
AudioUtils_calculateProgress(positionMillis, durationMillis) ==
  IF durationMillis = 0 \/ positionMillis < 0 THEN [m |-> << >>, e |-> 0]
  ELSE LET percent == Double_times(Double_div(positionMillis, durationMillis),
                                   [m |-> Bits[100], e |-> 0])
       IN IF Math_floor(percent) >= 100 THEN [m |-> Bits[100], e |-> 0] ELSE percent

\* the positions and the durations a progress is computed of
ProgressArgs ==
  { [fn |-> "progress", a |-> p, b |-> d] :
      p \in {0 - 5000, 0, 1, 29, 30000, 120000, 150000}, d \in {0, 100, 120000} }

\* calculateProgress is called with a position and a duration
UtilProgress ==
  /\ coord = "utils"
  /\ args.fn = "progress"
  /\ out' = [fn |-> "AudioUtils.calculateProgress",
             val |-> AudioUtils_calculateProgress(args.a, args.b)]
  /\ UNCHANGED <<hookVars, recVars, pbVars, coord, timers, call, ev, sound, staticRecording, args>>

\* Math.min(Math.max(volume, 0), 1), in tenths
AudioUtils_validateVolume(volume) == Min(Max(volume, 0), 10)
\* Math.min(Math.max(rate, 0.5), 2.0), in tenths
AudioUtils_validateRate(rate) == Min(Max(rate, 5), 20)

\* the volumes and the rates validated and set, in tenths: -0.2, 0, 0.1, 0.5,
\* 0.7, 1, 1.5, 2, 3
Levels == {0 - 2, 0, 1, 5, 7, 10, 15, 20, 30}
LevelArgs == { [fn |-> "level", a |-> v, b |-> 0] : v \in Levels }

\* a validator is called with a volume or a rate
UtilValidate(fn) ==
  /\ coord = "utils"
  /\ args.fn = "level"
  /\ out' = [fn |-> fn,
             val |-> CASE fn = "AudioUtils.validateVolume" -> AudioUtils_validateVolume(args.a)
                       [] fn = "AudioUtils.validateRate" -> AudioUtils_validateRate(args.a)]
  /\ UNCHANGED <<hookVars, recVars, pbVars, coord, timers, call, ev, sound, staticRecording, args>>

UtilNext ==
  \/ \E fn \in {"formatDuration", "AudioUtils.formatDuration", "formatDurationLong"} :
       UtilFormat(fn)
  \/ \E fn \in {"calculateFileSize", "AudioUtils.estimateFileSize"} : UtilFileSize(fn)
  \/ UtilProgress
  \/ \E fn \in {"AudioUtils.validateVolume", "AudioUtils.validateRate"} : UtilValidate(fn)

(* ================= static services: AudioPlaybackService =============== *)
\* The static methods catch every error and return a value.  A query in
\* flight is out with val "pending"; another method in flight is call.
\* what the catch block of a query returns
SvcCaught_Rethrows(fn) == "threw"
SvcCaught(fn) == IF fn = "getPermissionStatus" THEN "denied" ELSE "null"

\* loadAudio(uri): unloadAudio() is awaited first; with a sound it invokes
\* unloadAsync() and awaits it, without one createAsync is invoked at once
SvcLoadCall ==
  /\ coord = "staticPlayback"
  /\ call = NoCall
  /\ IF sound.set
     THEN /\ sound' = [sound EXCEPT !.torn = TRUE]
          /\ call' = Await("loadAudio", "unloadAsync")
          /\ ev' = Event("loadAudio", "unloadAsync")
     ELSE /\ sound' = sound
          /\ call' = Await("loadAudio", "createAsync")
          /\ ev' = Event("loadAudio", "createAsync")
  /\ UNCHANGED <<hookVars, recVars, pbVars, coord, timers, staticRecording, args, out>>

\* unloadAsync settled inside loadAudio: resolved, sound = null; rejected,
\* unloadAudio() returns false and the sound stays; loadAudio ignores the
\* result and invokes createAsync
SvcLoadUnloadSettled(ok) ==
  /\ coord = "staticPlayback"
  /\ call.op = "loadAudio" /\ call.pc = "unloadAsync"
  /\ sound' = IF ok THEN NoSound ELSE sound
  /\ call' = [call EXCEPT !.pc = "createAsync"]
  /\ ev' = Event("loadAudio", "createAsync")
  /\ UNCHANGED <<hookVars, recVars, pbVars, coord, timers, staticRecording, args, out>>

\* createAsync settled: resolved, sound = the new sound, return true;
\* rejected, return false
SvcLoadCreateSettled(ok) ==
  /\ coord = "staticPlayback"
  /\ call.op = "loadAudio" /\ call.pc = "createAsync"
  /\ sound' = IF ok THEN NewSound ELSE sound
  /\ call' = NoCall
  /\ ev' = [Returned("loadAudio") EXCEPT !.lost = ok /\ sound.set, !.loaded = ok]
  /\ UNCHANGED <<hookVars, recVars, pbVars, coord, timers, staticRecording, args, out>>

SvcSetters == {"setVolume", "setRate"}
\* validVolume = Math.min(Math.max(volume, 0), 1);
\* validRate = Math.min(Math.max(rate, 0.5), 2.0), in tenths
SvcValid_Unclamped(fn, v) == v
SvcValid(fn, v) == IF fn = "setVolume" THEN Min(Max(v, 0), 10) ELSE Min(Max(v, 5), 20)
\* setVolume(v), setRate(v): no sound, return false; else the clamped value
\* is passed to setVolumeAsync or setRateAsync, which is awaited
SvcSetCall(fn, v) ==
  /\ coord = "staticPlayback"
  /\ call = NoCall
  /\ args' = [fn |-> fn, a |-> v, b |-> 0]
  /\ IF ~sound.set
     THEN /\ call' = call
          /\ ev' = Returned(fn)
     ELSE /\ call' = [Await(fn, IF fn = "setVolume" THEN "setVolumeAsync" ELSE "setRateAsync")
                        EXCEPT !.num = SvcValid(fn, v)]
          /\ ev' = Event(fn, call'.pc)
  /\ UNCHANGED <<hookVars, recVars, pbVars, coord, timers, sound, staticRecording, out>>

\* the native setter settled: return true, or catch and return false
SvcSetSettled(ok) ==
  /\ coord = "staticPlayback"
  /\ call.op \in SvcSetters
  /\ call' = NoCall
  /\ ev' = [Returned(call.op) EXCEPT !.loaded = ok]
  /\ UNCHANGED <<hookVars, recVars, pbVars, coord, timers, sound, staticRecording, args, out>>

\* getStatus(): no sound, return null; else getStatusAsync() is invoked on
\* the sound and awaited
SvcGetStatusCall ==
  /\ coord = "staticPlayback"
  /\ out.val # "pending"
  /\ out' = [fn |-> "getStatus", val |-> IF sound.set THEN "pending" ELSE "null"]
  /\ ev' = IF sound.set THEN Event("getStatus", "getStatusAsync") ELSE Returned("getStatus")
  /\ UNCHANGED <<hookVars, recVars, pbVars, coord, timers, call, sound, staticRecording, args>>

\* getStatusAsync settled: resolved, return mapStatusToState(status), a
\* PlaybackState whether the status is loaded or not; rejected, catch
SvcGetStatusSettled(ok) ==
  /\ coord = "staticPlayback"
  /\ out = [fn |-> "getStatus", val |-> "pending"]
  /\ out' = [out EXCEPT !.val = IF ok THEN "PlaybackState" ELSE SvcCaught("getStatus")]
  /\ ev' = Returned("getStatus")
  /\ UNCHANGED <<hookVars, recVars, pbVars, coord, timers, call, sound, staticRecording, args>>

(* ================= static services: AudioRecordingService ============== *)
PermissionStatuses == {"granted", "denied", "undetermined"}
mapPermissionStatus(status) ==
  IF status = "granted" THEN "granted"
  ELSE IF status = "denied" THEN "denied" ELSE "undetermined"

\* startRecording(): requestPermission() is awaited, which awaits
\* Audio.requestPermissionsAsync()
SvcStartCall ==
  /\ coord = "staticRecording"
  /\ call = NoCall
  /\ call' = Await("startRecording", "requestPermissionsAsync")
  /\ ev' = Event("startRecording", "requestPermissionsAsync")
  /\ UNCHANGED <<hookVars, recVars, pbVars, coord, timers, sound, staticRecording, args, out>>

\* an await of startRecording settled.  The permission: not granted (a
\* rejection counts as denied), return false; granted, setAudioModeAsync.
\* setAudioModeAsync: resolved, Audio.Recording.createAsync.  createAsync:
\* resolved, recording = the new recording, return true.  A rejection of the
\* last two: catch, return false.
SvcStartSettled(ok) ==
  /\ coord = "staticRecording"
  /\ call.op = "startRecording"
  /\ \E status \in PermissionStatuses :
       LET goes == IF call.pc = "requestPermissionsAsync"
                   THEN ok /\ mapPermissionStatus(status) = "granted"
                   ELSE ok
           next == IF call.pc = "requestPermissionsAsync" THEN "setAudioModeAsync"
                   ELSE "createAsync"
       IN IF goes /\ call.pc # "createAsync"
          THEN /\ call' = [call EXCEPT !.pc = next]
               /\ ev' = Event("startRecording", next)
               /\ staticRecording' = staticRecording
          ELSE /\ call' = NoCall
               /\ ev' = [Returned("startRecording") EXCEPT
                           !.lost = goes /\ staticRecording.set, !.loaded = goes]
               /\ staticRecording' = IF goes THEN NewSound ELSE staticRecording
  /\ UNCHANGED <<hookVars, recVars, pbVars, coord, timers, sound, args, out>>

\* stopRecording(): no recording, return null; else stopAndUnloadAsync() is
\* invoked on it and awaited
SvcStopCall ==
  /\ coord = "staticRecording"
  /\ call = NoCall
  /\ IF ~staticRecording.set
     THEN /\ call' = call
          /\ ev' = Returned("stopRecording")
          /\ staticRecording' = staticRecording
     ELSE /\ call' = Await("stopRecording", "stopAndUnloadAsync")
          /\ ev' = Event("stopRecording", "stopAndUnloadAsync")
          /\ staticRecording' = [staticRecording EXCEPT !.torn = TRUE]
  /\ UNCHANGED <<hookVars, recVars, pbVars, coord, timers, sound, args, out>>

\* an await of stopRecording settled: stopAndUnloadAsync, then
\* setAudioModeAsync, then getURI() and getStatusAsync(), then recording =
\* null and the info is returned; a rejection: catch, recording = null,
\* return null
SvcStopSettled(ok) ==
  /\ coord = "staticRecording"
  /\ call.op = "stopRecording"
  /\ IF ok /\ call.pc # "getStatusAsync"
     THEN LET next == IF call.pc = "stopAndUnloadAsync" THEN "setAudioModeAsync"
                      ELSE "getStatusAsync"
          IN /\ call' = [call EXCEPT !.pc = next]
             /\ ev' = Event("stopRecording", next)
             /\ staticRecording' = staticRecording
     ELSE /\ call' = NoCall
          /\ ev' = [Returned("stopRecording") EXCEPT !.loaded = ok]
          /\ staticRecording' = NoSound
  /\ UNCHANGED <<hookVars, recVars, pbVars, coord, timers, sound, args, out>>

\* getRecordingStatus(): no recording, return null; else getStatusAsync();
\* getPermissionStatus(): Audio.getPermissionsAsync() is awaited
SvcQueryCall(fn) ==
  /\ coord = "staticRecording"
  /\ out.val # "pending"
  /\ LET asks == fn = "getPermissionStatus" \/ staticRecording.set
     IN /\ out' = [fn |-> fn, val |-> IF asks THEN "pending" ELSE "null"]
        /\ ev' = IF asks
                 THEN Event(fn, IF fn = "getPermissionStatus" THEN "getPermissionsAsync"
                                ELSE "getStatusAsync")
                 ELSE Returned(fn)
  /\ UNCHANGED <<hookVars, recVars, pbVars, coord, timers, call, sound, staticRecording, args>>

\* the native query settled.  getRecordingStatus: resolved, recording.getURI()
\* is read and the info returned, which throws a TypeError when
\* stopRecording() nulled the reference meanwhile; getPermissionStatus:
\* resolved, mapPermissionStatus(status).  Rejected or thrown: catch.
SvcQuerySettled(fn, ok) ==
  /\ coord = "staticRecording"
  /\ out = [fn |-> fn, val |-> "pending"]
  /\ \E status \in PermissionStatuses :
       out' = [out EXCEPT !.val =
                 IF fn = "getPermissionStatus"
                 THEN IF ok THEN mapPermissionStatus(status) ELSE SvcCaught(fn)
                 ELSE IF ok /\ staticRecording.set THEN "RecordingInfo" ELSE SvcCaught(fn)]
  /\ ev' = Returned(fn)
  /\ UNCHANGED <<hookVars, recVars, pbVars, coord, timers, call, sound, staticRecording, args>>

\* a guard of pauseRecording() that never fails
SvcHasRecording_Always == TRUE
\* the guard of pauseRecording() and resumeRecording():
\* if (!AudioRecordingService.recording) return false
SvcHasRecording == staticRecording.set

SvcToggles == {"pauseRecording", "resumeRecording"}
\* pauseRecording(), resumeRecording(): no recording, return false; else
\* pauseAsync() or startAsync() is invoked on the recording and awaited
SvcToggleCall(fn) ==
  /\ coord = "staticRecording"
  /\ call = NoCall
  /\ IF ~SvcHasRecording
     THEN /\ call' = call
          /\ ev' = Returned(fn)
     ELSE /\ call' = Await(fn, IF fn = "pauseRecording" THEN "pauseAsync" ELSE "startAsync")
          /\ ev' = Event(fn, call'.pc)
  /\ UNCHANGED <<hookVars, recVars, pbVars, coord, timers, sound, staticRecording, args, out>>

\* pauseAsync or startAsync settled: return true, or catch and return false
SvcToggleSettled(ok) ==
  /\ coord = "staticRecording"
  /\ call.op \in SvcToggles
  /\ call' = NoCall
  /\ ev' = [Returned(call.op) EXCEPT !.loaded = ok]
  /\ UNCHANGED <<hookVars, recVars, pbVars, coord, timers, sound, staticRecording, args, out>>

SvcQueries == {"getRecordingStatus", "getPermissionStatus"}
SvcNext ==
  \/ SvcLoadCall
  \/ \E ok \in BOOLEAN : SvcLoadUnloadSettled(ok)
  \/ \E ok \in BOOLEAN : SvcLoadCreateSettled(ok)
  \/ \E fn \in SvcSetters, v \in Levels : SvcSetCall(fn, v)
  \/ \E ok \in BOOLEAN : SvcSetSettled(ok)
  \/ SvcGetStatusCall
  \/ \E ok \in BOOLEAN : SvcGetStatusSettled(ok)
  \/ SvcStartCall
  \/ \E ok \in BOOLEAN : SvcStartSettled(ok)
  \/ SvcStopCall
  \/ \E ok \in BOOLEAN : SvcStopSettled(ok)
  \/ \E fn \in SvcToggles : SvcToggleCall(fn)
  \/ \E ok \in BOOLEAN : SvcToggleSettled(ok)
  \/ \E fn \in SvcQueries : SvcQueryCall(fn)
  \/ \E fn \in SvcQueries, ok \in BOOLEAN : SvcQuerySettled(fn, ok)

\* the utility functions called with arguments of their domains, or one of
\* the static services
StaticNext == UtilNext \/ SvcNext
InitStatic ==
  /\ coord \in {"utils", "staticPlayback", "staticRecording"}
  /\ recording = NewAudioRecording
  /\ recordingInstance = NoInstance
  /\ playback = NewAudioPlayback(PlaybackOptions(FALSE))
  /\ soundInstance = NoSound
  /\ statusUpdateInterval = "null"
  /\ timers = NoTimers
  /\ call = NoCall
  /\ ev = Event("init", "none")
  /\ run = "fresh"
  /\ hist = <<IDLE>>
  /\ sound = NoSound
  /\ staticRecording = NoSound
  /\ IF coord = "utils"
     THEN args \in DurationArgs \cup FileSizeArgs \cup ProgressArgs \cup LevelArgs
     ELSE args = NoArgs
  /\ out = NoOut
  /\ app = NoApp
SpecStatic == InitStatic /\ [][StaticNext]_vars

(* ========================= useAudioPlayback ============================ *)
\* Each consumer's hook instance creates an AudioPlayback and an
\* AudioPlaybackService of its own; of the coordinator the model keeps what
\* reaches the options: whether a sound is held and the method in flight.
\* A behaviour calls one of the four option setters, args.fn.
HookSetters == PbSetters \cup {"setLooping"}
HookSetArgs(op) ==
  IF op = "setLooping" THEN {0, 1} ELSE IF op \in PbSetters THEN PbSetArgs(op) ELSE {}
HookSetPrimitive(op) == IF op = "setLooping" THEN "setIsLoopingAsync" ELSE PbSetPrimitive(op)
\* the object o after the entity's setter wrote this._options.<field>
HookSetOption(o, op, v) ==
  LET p == [options |-> o]
  IN IF op = "setLooping" THEN Playback_setLooping(p, v = 1).options
     ELSE PbSetOption(p, op, v).options

\* the object createPlayback hands to new AudioPlayback(...):
\* playbackOptions ? {...DEFAULT_PLAYBACK_OPTIONS, ...playbackOptions}
\*                 : DEFAULT_PLAYBACK_OPTIONS
createPlayback(c, custom) == IF custom THEN c ELSE "DEFAULT_PLAYBACK_OPTIONS"

\* the mount effect: createPlayback().  A consumer with options of its own
\* passes {isLooping: true}; the spread copies the constant as it is then.
HookCreatePlayback(c, custom) ==
  /\ coord = "useAudioPlayback"
  /\ hooks[c].mounted = "no"
  /\ app' = [app EXCEPT
               !.heap[c] = [heap["DEFAULT_PLAYBACK_OPTIONS"] EXCEPT !.isLooping = TRUE],
               !.hooks[c] = [NoHook EXCEPT !.mounted = "yes", !.custom = custom,
                                           !.options = createPlayback(c, custom)]]
  /\ ev' = Returned("createPlayback")
  /\ out' = [fn |-> "createPlayback", val |-> c]
  /\ UNCHANGED <<recVars, pbVars, coord, timers, call, sound, staticRecording, args>>

\* the cleanup of the mount effect: serviceRef.current.dispose(), which drops
\* the sound and resets the session; the options are not touched and a
\* method in flight resumes later
HookDispose(c) ==
  /\ coord = "useAudioPlayback"
  /\ hooks[c].mounted = "yes"
  /\ app' = [app EXCEPT !.hooks[c].mounted = "gone", !.hooks[c].soundInstance = FALSE]
  /\ ev' = Returned("dispose")
  /\ out' = [fn |-> "dispose", val |-> c]
  /\ UNCHANGED <<recVars, pbVars, coord, timers, call, sound, staticRecording, args>>

\* load(uri) of the consumer's coordinator: a sound is held, unloadAsync()
\* is awaited first; else createAsync({uri}, options) is awaited
HookLoadCall(c) ==
  /\ coord = "useAudioPlayback"
  /\ hooks[c].mounted = "yes"
  /\ hooks[c].call = NoCall
  /\ LET pc == IF hooks[c].soundInstance THEN "unloadAsync" ELSE "createAsync"
     IN /\ app' = [app EXCEPT !.hooks[c].call = Await("load", pc)]
        /\ ev' = Event("load", pc)
  /\ out' = [fn |-> "load", val |-> c]
  /\ UNCHANGED <<recVars, pbVars, coord, timers, call, sound, staticRecording, args>>

\* an await of load() settled.  unloadAsync resolved: soundInstance = null,
\* createAsync is awaited; createAsync resolved: soundInstance = sound,
\* getStatusAsync() is awaited; getStatusAsync resolved: return.  A
\* rejection: catch, setError(err), throw err.
HookLoadSettled(c, ok) ==
  /\ coord = "useAudioPlayback"
  /\ hooks[c].call.op = "load"
  /\ LET pc == hooks[c].call.pc
         next == IF pc = "unloadAsync" THEN "createAsync" ELSE "getStatusAsync"
     IN IF ok /\ pc # "getStatusAsync"
        THEN /\ app' = [app EXCEPT !.hooks[c].call.pc = next,
                                   !.hooks[c].soundInstance = (pc = "createAsync")]
             /\ ev' = Event("load", next)
        ELSE /\ app' = [app EXCEPT !.hooks[c].call = NoCall]
             /\ ev' = IF ok THEN Returned("load") ELSE Threw("load")
  /\ out' = [fn |-> "load", val |-> c]
  /\ UNCHANGED <<recVars, pbVars, coord, timers, call, sound, staticRecording, args>>

\* the setter args.fn of the consumer's coordinator is called with v: no
\* sound, it throws; else the native setter is invoked and awaited
HookSetCall(c, v) ==
  /\ coord = "useAudioPlayback"
  /\ hooks[c].mounted = "yes"
  /\ hooks[c].call = NoCall
  /\ IF ~hooks[c].soundInstance
     THEN /\ app' = app
          /\ ev' = Threw(args.fn)
     ELSE /\ app' = [app EXCEPT !.hooks[c].call =
                       [Await(args.fn, HookSetPrimitive(args.fn)) EXCEPT !.num = v]]
          /\ ev' = Event(args.fn, HookSetPrimitive(args.fn))
  /\ out' = [fn |-> args.fn, val |-> c]
  /\ UNCHANGED <<recVars, pbVars, coord, timers, call, sound, staticRecording, args>>

\* the native setter settled: resolved, this.playback.set<Field>(v) writes
\* the field of the object the entity holds as _options; rejected, catch,
\* setError(err), throw err
HookSetSettled(c, ok) ==
  /\ coord = "useAudioPlayback"
  /\ hooks[c].call.op \in HookSetters
  /\ app' = [app EXCEPT
               !.heap[hooks[c].options] =
                 IF ok THEN HookSetOption(@, hooks[c].call.op, hooks[c].call.num) ELSE @,
               !.hooks[c].call = NoCall]
  /\ ev' = IF ok THEN Returned(hooks[c].call.op) ELSE Threw(hooks[c].call.op)
  /\ out' = [fn |-> hooks[c].call.op, val |-> c]
  /\ UNCHANGED <<recVars, pbVars, coord, timers, call, sound, staticRecording, args>>

(* ============================== useAudio =============================== *)
\* the mount effect of useAudio:
\* AudioPlaybackService.setStatusUpdateCallback(setPlaybackState)
UseAudioMount(c) ==
  /\ coord = "staticPlayback"
  /\ hooks[c].mounted = "no"
  /\ app' = [app EXCEPT !.hooks[c].mounted = "yes", !.onStatusUpdate = c]
  /\ ev' = Returned("setStatusUpdateCallback")
  /\ UNCHANGED <<recVars, pbVars, coord, timers, call, sound, staticRecording, args, out>>

\* its cleanup: AudioPlaybackService.setStatusUpdateCallback(() => {})
UseAudioUnmount(c) ==
  /\ coord = "staticPlayback"
  /\ hooks[c].mounted = "yes"
  /\ app' = [app EXCEPT !.hooks[c].mounted = "gone", !.onStatusUpdate = "noop"]
  /\ ev' = Returned("setStatusUpdateCallback")
  /\ UNCHANGED <<recVars, pbVars, coord, timers, call, sound, staticRecording, args, out>>

\* a durationMillis of the native status that is undefined
Undefined == 0 - 1
\* mapStatusToState(status)
mapStatusToState(status) ==
  IF ~status.isLoaded
  THEN [isLoaded |-> FALSE, positionMillis |-> 0, durationMillis |-> 0]
  ELSE [isLoaded |-> TRUE, positionMillis |-> status.positionMillis,
        durationMillis |-> IF status.durationMillis = Undefined THEN 0
                           ELSE status.durationMillis]

\* whether handleStatusUpdate calls the setter of consumer c: the one
\* callback the static field holds is called
handleStatusUpdate(c) == onStatusUpdate = c

\* the native player emits a status of the loaded sound: expo-av calls
\* handleStatusUpdate(status), the callback createAsync was given
UseAudioStatusUpdate ==
  /\ coord = "staticPlayback"
  /\ sound.set
  /\ \E isLoaded \in BOOLEAN, pos \in Millis, dur \in Millis \cup {Undefined} :
       LET status == [isLoaded |-> isLoaded, positionMillis |-> pos, durationMillis |-> dur]
       IN /\ app' = [app EXCEPT !.hooks =
                       [c \in Consumers |->
                          IF onStatusUpdate # "null" /\ handleStatusUpdate(c)
                          THEN [hooks[c] EXCEPT !.playbackState = <<mapStatusToState(status)>>]
                          ELSE hooks[c]]]
          /\ args' = [fn |-> "handleStatusUpdate", a |-> pos, b |-> dur]
          /\ ev' = [Event("handleStatusUpdate", "none") EXCEPT !.loaded = isLoaded]
  /\ UNCHANGED <<recVars, pbVars, coord, timers, call, sound, staticRecording, out>>

HooksNext ==
  \/ \E c \in Consumers, custom \in BOOLEAN : HookCreatePlayback(c, custom)
  \/ \E c \in Consumers : HookDispose(c)
  \/ \E c \in Consumers : HookLoadCall(c)
  \/ \E c \in Consumers, ok \in BOOLEAN : HookLoadSettled(c, ok)
  \/ \E c \in Consumers : \E v \in HookSetArgs(args.fn) : HookSetCall(c, v)
  \/ \E c \in Consumers, ok \in BOOLEAN : HookSetSettled(c, ok)
  \/ \E c \in Consumers : UseAudioMount(c)
  \/ \E c \in Consumers : UseAudioUnmount(c)
  \/ UseAudioStatusUpdate
  \/ SvcLoadCall
  \/ \E ok \in BOOLEAN : SvcLoadUnloadSettled(ok)
  \/ \E ok \in BOOLEAN : SvcLoadCreateSettled(ok)

\* two consumers of useAudioPlayback that call one option setter, or two
\* consumers of useAudio over the static playback service
InitHooks ==
  /\ coord \in {"useAudioPlayback", "staticPlayback"}
  /\ recording = NewAudioRecording
  /\ recordingInstance = NoInstance
  /\ playback = NewAudioPlayback(PlaybackOptions(FALSE))
  /\ soundInstance = NoSound
  /\ statusUpdateInterval = "null"
  /\ timers = NoTimers
  /\ call = NoCall
  /\ ev = Event("init", "none")
  /\ run = "fresh"
  /\ hist = <<IDLE>>
  /\ sound = NoSound
  /\ staticRecording = NoSound
  /\ \E fn \in (IF coord = "useAudioPlayback" THEN HookSetters ELSE {"none"}) :
       args = [NoArgs EXCEPT !.fn = fn]
  /\ out = NoOut
  /\ app = [heap |-> [o \in Objects |-> PlaybackOptions(FALSE)],
            hooks |-> [c \in Consumers |-> NoHook],
            onStatusUpdate |-> "null"]
SpecHooks == InitHooks /\ [][HooksNext]_vars

\* the number a string of decimal digits denotes
RECURSIVE C25_Value(_)
C25_Value(s) ==
  IF s = << >> THEN 0
  ELSE 10 * C25_Value(SubSeq(s, 1, Len(s) - 1))
         + (CHOOSE d \in 0 .. 9 : Digits[d + 1] = s[Len(s)])
\* s is a string of decimal digits
C25_IsDigits(s) == \A i \in 1 .. Len(s) : \E d \in 1 .. 10 : Digits[d] = s[i]
\* s is the number n written in decimal and zero-padded to two digits: at
\* least two digits, and no leading zero beyond the second-last digit
C25_Padded(s, n) ==
  /\ Len(s) >= 2
  /\ C25_IsDigits(s)
  /\ C25_Value(s) = n
  /\ Len(s) > 2 => s[1] # "0"

\* C25 as stated: formatDuration(ms) and AudioUtils.formatDuration(ms) are
\* five characters MM:SS, the two-digit minutes field being floor(ms / 60000)
\* and the two-digit seconds field floor(ms / 1000) mod 60, and the two
\* functions return the same string.
C25_FormatDurationTwoDigitFields ==
  out.fn \in {"formatDuration", "AudioUtils.formatDuration"} =>
    /\ Len(out.val) = 5
    /\ out.val[3] = ":"
    /\ C25_Padded(SubSeq(out.val, 1, 2), args.a \div 60000)
    /\ C25_Padded(SubSeq(out.val, 4, 5), (args.a \div 1000) % 60)
    /\ formatDuration(args.a) = AudioUtils_formatDuration(args.a)

\* C25 amended: formatDuration(ms) and AudioUtils.formatDuration(ms) are
\* minutes, a colon and seconds: the minutes field is floor(ms / 60000)
\* zero-padded to at least two digits (three or more from 6000000 ms on), the
\* seconds field is exactly two digits, floor(ms / 1000) mod 60, and the two
\* functions return the same string.
C25_FormatDurationPadded ==
  out.fn \in {"formatDuration", "AudioUtils.formatDuration"} =>
    LET k == Len(out.val)
    IN /\ k >= 5
       /\ out.val[k - 2] = ":"
       /\ C25_Padded(SubSeq(out.val, 1, k - 3), args.a \div 60000)
       /\ (args.a < 6000000 => k = 5)
       /\ C25_Padded(SubSeq(out.val, k - 1, k), (args.a \div 1000) % 60)
       /\ formatDuration(args.a) = AudioUtils_formatDuration(args.a)

\* C25 witness: one hundred minutes and five seconds were formatted as
\* 100:05.
C25_Witness ==
  /\ out.fn = "formatDuration"
  /\ args.a = 6005999
  /\ out.val = <<"1", "0", "0", ":", "0", "5">>

\* C26: formatDurationLong(ms) is formatDuration(ms) when ms < 3600000;
\* otherwise it is hours, minutes and seconds separated by colons, the hours
\* being floor(ms / 3600000) zero-padded to two digits, the minutes and the
\* seconds two digits each, in 0..59.
C26_FormatDurationLong ==
  out.fn = "formatDurationLong" =>
    IF args.a < 3600000
    THEN out.val = formatDuration(args.a)
    ELSE LET k == Len(out.val)
             mm == C25_Value(SubSeq(out.val, k - 4, k - 3))
             ss == C25_Value(SubSeq(out.val, k - 1, k))
         IN /\ k >= 8
            /\ out.val[k - 2] = ":" /\ out.val[k - 5] = ":"
            /\ C25_Padded(SubSeq(out.val, 1, k - 6), args.a \div 3600000)
            /\ C25_IsDigits(SubSeq(out.val, k - 4, k - 3))
            /\ C25_IsDigits(SubSeq(out.val, k - 1, k))
            /\ mm \in 0 .. 59 /\ ss \in 0 .. 59
            /\ ((args.a \div 3600000) * 60 + mm) * 60 + ss = args.a \div 1000

\* C26 witness: 3725000 ms were formatted as 01:02:05.
C26_Witness ==
  /\ out.fn = "formatDurationLong"
  /\ args.a = 3725000
  /\ out.val = <<"0", "1", ":", "0", "2", ":", "0", "5">>

\* floor(bitRate * durationMillis / 8000) in the integers, the product being
\* split so that no intermediate value leaves 32 bits
C27_Floor(durationMillis, bitRate) ==
  (bitRate \div 8000) * durationMillis + ((bitRate % 8000) * durationMillis) \div 8000

\* C27: calculateFileSize(durationMillis, bitRate) and
\* AudioUtils.estimateFileSize(durationMillis, bitRate) both return
\* floor(bitRate * durationMillis / 8000), for non-negative integer
\* arguments.
C27_FileSizeIsFloor ==
  out.fn \in {"calculateFileSize", "AudioUtils.estimateFileSize"} =>
    /\ out.val = C27_Floor(args.a, args.b)
    /\ calculateFileSize(args.a, args.b) = AudioUtils_estimateFileSize(args.a, args.b)

\* the double x is the integer n
C28_Is(x, n) ==
  /\ Math_floor(x) = n
  /\ x.e < 0 => \A i \in 1 .. Len(x.m) : i > Len(x.m) + x.e => x.m[i] = 0

\* C28: AudioUtils.calculateProgress(position, duration) is 0 when the
\* duration is 0; for a positive duration it is 0 for a position of 0 or
\* less, 100 for a position of the duration or more, and between them the
\* double position / duration * 100, which is below 100 and within 1/256 of
\* the exact quotient.
C28_ProgressClamped ==
  out.fn = "AudioUtils.calculateProgress" =>
    LET p == args.a
        d == args.b
    IN IF d = 0 \/ p <= 0 THEN C28_Is(out.val, 0)
       ELSE IF p >= d THEN C28_Is(out.val, 100)
       ELSE /\ Math_floor(out.val) < 100
            /\ LET got == Math_floor([out.val EXCEPT !.e = @ + 8])
                   exact == (25600 * p) \div d
               IN got \in {exact - 1, exact}

\* C28 witness: the progress of 30000 ms in 120000 ms was computed as 25.
C28_Witness ==
  /\ out.fn = "AudioUtils.calculateProgress"
  /\ args.a = 30000 /\ args.b = 120000
  /\ C28_Is(out.val, 25)

\* v limited to the range from lo to hi
C29_Limited(v, lo, hi) == IF v < lo THEN lo ELSE IF v > hi THEN hi ELSE v

\* C29: validateVolume(v) is v limited to [0, 1] and validateRate(r) is r
\* limited to [0.5, 2.0], a second validation changes neither, and the value
\* the static playback service's setVolume(v) or setRate(r) passes to the
\* native setter is v or r limited in the same way.
C29_OnlyClampedLevels ==
  /\ out.fn = "AudioUtils.validateVolume" =>
       /\ out.val = C29_Limited(args.a, VOLUME.MIN, VOLUME.MAX)
       /\ AudioUtils_validateVolume(out.val) = out.val
  /\ out.fn = "AudioUtils.validateRate" =>
       /\ out.val = C29_Limited(args.a, PLAYBACK_RATE.MIN, PLAYBACK_RATE.MAX)
       /\ AudioUtils_validateRate(out.val) = out.val
  /\ coord = "staticPlayback" /\ call.op = "setVolume" =>
       /\ call.pc = "setVolumeAsync"
       /\ call.num = C29_Limited(args.a, VOLUME.MIN, VOLUME.MAX)
  /\ coord = "staticPlayback" /\ call.op = "setRate" =>
       /\ call.pc = "setRateAsync"
       /\ call.num = C29_Limited(args.a, PLAYBACK_RATE.MIN, PLAYBACK_RATE.MAX)

\* C29 witness: the static setVolume(1.5) has passed 1.0 to setVolumeAsync.
C29_Witness ==
  /\ coord = "staticPlayback"
  /\ ev = Event("setVolume", "setVolumeAsync")
  /\ args.a = 15
  /\ call.num = 10

\* C24: no method of the static services throws; getStatus() and
\* getRecordingStatus() return null when no handle is held and when the
\* native status query throws, and getPermissionStatus() returns 'denied'
\* when the native permission query throws.
C24_PassiveQueriesNeverThrow ==
  [][/\ coord \in {"staticPlayback", "staticRecording"} => ev'.ret # "threw"
     /\ SvcGetStatusCall /\ ~sound.set => out' = [fn |-> "getStatus", val |-> "null"]
     /\ SvcGetStatusSettled(FALSE) => out' = [fn |-> "getStatus", val |-> "null"]
     /\ SvcQueryCall("getRecordingStatus") /\ ~staticRecording.set =>
          out' = [fn |-> "getRecordingStatus", val |-> "null"]
     /\ SvcQuerySettled("getRecordingStatus", FALSE) =>
          out' = [fn |-> "getRecordingStatus", val |-> "null"]
     /\ SvcQuerySettled("getPermissionStatus", FALSE) =>
          out' = [fn |-> "getPermissionStatus", val |-> "denied"]
     /\ out'.fn \in {"getStatus"} \cup SvcQueries => out'.val # "threw"]_vars

\* C24 witness: getRecordingStatus() returned null although a recording is
\* held: its native status query threw.
C24_Witness ==
  /\ ev = Returned("getRecordingStatus")
  /\ out = [fn |-> "getRecordingStatus", val |-> "null"]
  /\ staticRecording.set
  /\ call = NoCall

(* ------------------- C31, C32: quiet after the teardown ----------------- *)
\* the step resumes a block that was already suspended (a callback of an
\* interval, or the method op in flight going on past its await): nothing is
\* invoked by the caller
C31_Resumes(op) == ev'.op = "tick" \/ (call.op = op /\ ev'.op = op)

\* the playback coordinator at rest: the session reset, no handle, no
\* interval still scheduled
C31_PbQuiet ==
  /\ playback.state = IDLE /\ playback.uri = NoUri /\ playback.duration = 0
  /\ playback.position = 0 /\ playback.status = NoStatus
  /\ ~soundInstance.set
  /\ statusUpdateInterval \notin {"idle", "busy"}
  /\ timers.idle = 0 /\ timers.busy = 0

\* C31: once playback dispose() or a successful unload() has returned, the
\* blocks that resume afterwards without a new call (a load() or a poll
\* callback that was suspended on a native await) leave the session reset,
\* the handle null and no poll timer active.
C31_PbDisposeStaysReset ==
  [][(/\ coord \in PbCoords
      /\ ev.op \in {"dispose", "unload"} /\ ev.ret = "returned"
      /\ C31_Resumes("load"))
     => C31_PbQuiet']_vars

\* the recording coordinator's session reset
C32_RecReset ==
  /\ recording.state = IDLE /\ recording.uri = NoUri /\ recording.duration = 0
  /\ recording.error = NoError /\ recording.status = NoStatus

\* C32: once recording dispose() has returned, the blocks that resume
\* afterwards without a new call (a start() or a poll callback that was
\* suspended on a native await) leave the session reset.
C32_RecDisposeStaysReset ==
  [][(/\ coord = "rec"
      /\ ev.op = "dispose" /\ ev.ret = "returned"
      /\ C31_Resumes("start"))
     => C32_RecReset']_vars

\* C33: in every reachable state of a recording coordinator at most one poll
\* timer is active (scheduled and not cleared), whatever sequence of
\* prepare, start, pause, stop, cancel and dispose was called.
C33_AtMostOnePollTimer == coord = "rec" => C30_RecActive <= 1

\* C34: a playback session in state Error stays in Error until load(),
\* unload() or dispose() is called: play(), pause(), stop() and seek() are
\* rejected without a native call, and no poll callback moves the state out
\* of Error.
C34_ErrorIsSticky ==
  [][(coord = "pb" /\ playback.state = ERROR
        /\ ev'.op \notin {"load", "unload", "dispose"}) =>
       /\ playback'.state = ERROR
       /\ ev'.op \in PbOps \cup {"seek"} =>
            ev'.ret = "threw" /\ ev'.native = "none"]_vars

\* C36: in the static recording service stopRecording() ends, whether it
\* returns the info or null after a native call threw, with the shared
\* handle null; called next, pauseRecording() and resumeRecording() return
\* false and getRecordingStatus() returns null without a native call; none
\* of the four ever throws.
C36_StopNullsTheHandle ==
  [][coord = "staticRecording" =>
       /\ (ev'.op = "stopRecording" /\ ev'.ret # "none") => ~staticRecording'.set
       /\ (ev.op = "stopRecording" /\ ev.ret # "none" /\ ev'.op \in SvcToggles) =>
            ev' = Returned(ev'.op)
       /\ (ev.op = "stopRecording" /\ ev.ret # "none" /\ ev'.op = "getRecordingStatus") =>
            ev' = Returned("getRecordingStatus") /\ out'.val = "null"
       /\ ev'.op \in SvcToggles \cup {"stopRecording", "getRecordingStatus"} =>
            ev'.ret # "threw" /\ out'.val # "threw"]_vars

\* C36 happens: stopRecording() has just returned the info of a recording
\* and the shared handle is null
C36_Witness ==
  /\ coord = "staticRecording"
  /\ ev = [Returned("stopRecording") EXCEPT !.loaded = TRUE]
  /\ ~staticRecording.set
  /\ call = NoCall

\* C37: in the static playback service a loadAudio() that stores a new sound
\* in the shared handle never overwrites a sound that is still loaded: the
\* previous sound was unloaded and the handle null before, also when the
\* native unload call throws.
C37_LoadNeverReplacesLoaded ==
  [][(coord = "staticPlayback" /\ call.op = "loadAudio" /\ sound' # sound /\ sound'.set)
       => ~sound.set]_vars

\* C35: two playback sessions created by useAudioPlayback without custom
\* options are independent: a setVolume, setPlaybackRate, setLooping or
\* setMuted on the coordinator of one changes neither the options observed
\* through the other session nor the exported DEFAULT_PLAYBACK_OPTIONS that
\* sessions created later start from.
C35_SessionsIndependent ==
  [][(coord = "useAudioPlayback" /\ ev'.op \in HookSetters /\ ~hooks[out'.val].custom) =>
       /\ heap'["DEFAULT_PLAYBACK_OPTIONS"] = heap["DEFAULT_PLAYBACK_OPTIONS"]
       /\ \A d \in Consumers \ {out'.val} :
            (hooks[d].mounted = "yes" /\ ~hooks[d].custom) =>
              heap'[hooks[d].options] = heap[hooks[d].options]]_vars

\* C38: while a useAudio consumer is mounted, every status update the native
\* player emits for the loaded sound is delivered to that consumer's
\* playbackState, also when a second consumer mounted or unmounted in the
\* meantime.
C38_EveryMountedConsumerIsUpdated ==
  [][(coord = "staticPlayback" /\ ev'.op = "handleStatusUpdate") =>
       \A c \in Consumers :
         hooks[c].mounted = "yes" =>
           hooks'[c].playbackState =
             <<mapStatusToState([isLoaded |-> ev'.loaded, positionMillis |-> args'.a,
                                 durationMillis |-> args'.b])>>]_vars

====
